---- MODULE Spec2Model ----
(***************************************************************************)
(* fn_nas: the coordinator of the integration (coordinator.py) with its    *)
(* SSH session pool, the poll tick (_async_update_data), the background    *)
(* retry loop, and the action calls that use the pool (button.py,          *)
(* system_manager.py, vm_manager.py).                                      *)
(*                                                                         *)
(* Every coroutine is a process; an action of the model is the code        *)
(* between two suspension points (await) of that coroutine.  The pool      *)
(* lock (asyncio.Lock) is held by get_ssh_connection from entry to return, *)
(* so the part of get_ssh_connection before the waiting loop is one        *)
(* action guarded by the lock being free; the waiting loop sleeps with the *)
(* lock held and is modelled poll by poll.                                 *)
(*                                                                         *)
(* Strings: "unknown" stands for the sentinel "未知"; a command output is   *)
(* "ok" (well-formed output), "cannot" (an error text) or "" (nothing).    *)
(***************************************************************************)
EXTENDS Integers, Sequences, FiniteSets, TLC

\* ---------------------------------------------------------------- constants

\* self.ssh_pool_size
PoolSizeDefault == 3
\* iterations of the waiting loop, 0.1 s each
WaitPolls == 50
\* the retry loop's intervals in units of 1/32 s, in which every product by 1.5 that
\* stays under the maximum is exact: 30 s and 300 s
RetryIntervalStart == 960
RetryIntervalMax == 9600

\* number of reload requests after which the retry loop is not modelled further
MaxReloads == 1

\* number of failed probes after which a retry loop is not modelled further
MaxAttempts == 7

Callers == {"a1", "a2"}
Tick == "tick"
Procs == Callers \cup {Tick}
NoProc == "none"

VMName == "vm1"
ContainerName == "c1"
PoolName == "tank"

ActionKinds == {"reboot", "shutdown", "vm_reboot", "vm_destroy", "container_restart", "scrub"}

\* ---------------------------------------------------------------- variables

VARIABLES
    ssh_pool,         \* sequence of [in_use, owners, fallback]: the (session, in_use)
                      \* pairs; owners are the processes that were handed the session and
                      \* still use it, fallback is what the session's negotiation ended in
    ssh_pool_size,    \* the ceiling
    ssh_pool_lock,    \* the process inside get_ssh_connection's waiting loop, or NoProc
    use_sudo,
    _system_online,
    _ping_task,       \* "none", "pending" or "done"
    check_interval,   \* the retry loop's local, in 1/32 s (0 when no loop is pending)
    loops,            \* number of retry loops that are pending
    attempts,         \* failed probes of the retry loop that was started last
    reloads,          \* reloads of the integration requested by the retry loop
    data,             \* the published snapshot (coordinator.data)
    enable_docker,
    host,             \* which remote host the integration talks to (a profile)
    users,            \* the callers that make action calls
    flaky,            \* whether the transport to the host can fail at any time
    pc,               \* per process: position in run_command / async_connect
    connection_id,    \* per process: the local connection_id (-1 is None)
    sess,             \* per process: its local ssh: "none", "open" or "closed"
    result,           \* per process: what run_command returned
    err,              \* per process: the exception run_command met, if any
    polls,            \* iterations done by the waiting loop of the lock holder
    kind,             \* per caller: the action call in progress
    stage,            \* position of the tick
    work,             \* the tick's local variables
    first_run,             \* DiskManager.first_run
    disk_full_info_cache,  \* DiskManager.disk_full_info_cache: device -> disk_info copy
    disk_io_stats_cache,   \* DiskManager.disk_io_stats_cache: device -> I/O counters
    disk_poll,             \* get_disks_info in progress: its devices still to process
    loaded,           \* the config entry: "loaded", "unloading" or "unloaded"
    event             \* what the last step did, when it closed the pool or returned a snapshot

poolVars == <<ssh_pool, ssh_pool_size, ssh_pool_lock, use_sudo>>
procVars == <<pc, connection_id, sess, result, err, polls>>
tickVars == <<stage, work>>
retryVars == <<_ping_task, check_interval, loops, attempts, reloads>>
confVars == <<enable_docker, host, flaky, users>>
diskVars == <<first_run, disk_full_info_cache, disk_io_stats_cache, disk_poll>>
envVars == <<confVars, loaded, diskVars>>
vars == <<poolVars, procVars, tickVars, retryVars, envVars, _system_online, data, kind,
          event>>

\* ---------------------------------------------------------------- helpers

EmptyDict == <<>>

Merge(f, g) == [k \in (DOMAIN f) \cup (DOMAIN g) |-> IF k \in DOMAIN g THEN g[k] ELSE f[k]]

Pop(pool, i) == SubSeq(pool, 1, i - 1) \o SubSeq(pool, i + 1, Len(pool))

NoEvent == [type |-> "none"]

\* ---------------------------------------------------------------- remote host

HostProfiles == {"full", "no_uptime", "no_memory", "headless", "zfs", "sudoers",
                 "untitled"}

Commands == {"uptime", "sensors", "free", "vol", "lsblk", "zpool_list", "zpool_status",
             "ups", "virsh_list", "virsh_dumpxml", "docker_ps",
             "reboot", "shutdown", "virsh_reboot", "virsh_destroy", "virsh_start",
             "virsh_pause", "docker_restart", "zpool_scrub"}

\* what the host prints for a command that reaches it
HostAnswer(h, c) ==
    CASE h = "full" -> "ok"
      [] h = "no_uptime" -> IF c = "uptime" THEN "" ELSE "ok"
      [] h = "no_memory" -> IF c = "free" THEN "" ELSE "ok"
      [] h = "untitled" -> IF c \in {"virsh_dumpxml", "docker_ps"} THEN "" ELSE "ok"
      [] h = "zfs" -> IF c \in {"virsh_start", "virsh_reboot", "virsh_destroy", "zpool_scrub"}
                      THEN "ok" ELSE ""
      [] OTHER -> IF c \in {"reboot", "shutdown"} THEN "ok" ELSE ""

\* what `zpool scrub` prints on a host whose pool may be busy, missing or silent
ScrubOutputs == {"ok", "", "cannot open 'tank': no such pool", "Cannot scrub tank: busy"}

\* the outputs a command may produce on a host
HostAnswers(h, c) ==
    IF h = "zfs" /\ c = "zpool_scrub" THEN ScrubOutputs ELSE {HostAnswer(h, c)}

\* the action calls made on a host: VM, container and pool buttons exist only for
\* the VMs, containers and pools that the host lists; every kind is called on some host
Buttons(h) ==
    CASE h = "headless" -> {"reboot"}
      [] h = "full" -> {"vm_reboot", "container_restart"}
      [] h = "no_uptime" -> {"reboot", "shutdown"}
      [] OTHER -> {"vm_destroy", "scrub"}

\* ---------------------------------------------------------------- snapshot

get_default_data ==
    [disks |-> <<>>,
     system |-> [uptime |-> "unknown",
                 cpu_temperature |-> "unknown",
                 motherboard_temperature |-> "unknown",
                 status |-> "off"],
     ups |-> EmptyDict,
     vms |-> <<>>,
     docker_containers |-> <<>>,
     zpools |-> <<>>,
     scrub_status |-> EmptyDict]


\* a status write that replaces the system record
SetSystemStatusOnly(d, st) == [d EXCEPT !.system = [status |-> st]]

\* `self.coordinator.data["system"]["status"] = st`
SetSystemStatus(d, st) == [d EXCEPT !.system = Merge(d.system, [status |-> st])]

SetVmState(d, name, st) ==
    LET vms == d.vms
    IN [d EXCEPT !.vms = [i \in 1..Len(vms) |->
                            IF vms[i].name = name THEN [vms[i] EXCEPT !.state = st] ELSE vms[i]]]

SetContainerStatus(d, name, st) ==
    LET cs == d.docker_containers
    IN [d EXCEPT !.docker_containers = [i \in 1..Len(cs) |->
                            IF cs[i].name = name THEN [cs[i] EXCEPT !.status = st] ELSE cs[i]]]

\* ---------------------------------------------------------------- session pool

\* outcomes of a transport operation (connect, probe, close, command): TRUE is success
Outcomes == IF flaky THEN BOOLEAN ELSE {TRUE}

NoErr == [kind |-> "none", raised |-> FALSE]

\* an except clause that catches only the failures of the command itself
RunCommandExceptNarrow(e) == [kind |-> e, raised |-> (e # "exec"), returns |-> ""]

\* run_command's `except Exception: return ""`: what becomes of exception e
RunCommandExcept(e) == [kind |-> e, raised |-> FALSE, returns |-> ""]

\* async_connect's `except Exception: return False`
AsyncConnectExcept(e) == [kind |-> e, raised |-> FALSE, returns |-> ""]

ErrOf(x) == [kind |-> x.kind, raised |-> x.raised]

\* first index (1-based) of a pair that is not in use, 0 if there is none
FirstFree(pool) ==
    IF \E i \in 1..Len(pool) : ~pool[i].in_use
    THEN CHOOSE i \in 1..Len(pool) : ~pool[i].in_use /\ \A j \in 1..(i - 1) : pool[j].in_use
    ELSE 0

\* a ceiling test that is off by one
PoolHasRoomOffByOne(pool, size) == Len(pool) <= size

\* `if len(self.ssh_pool) < self.ssh_pool_size`
PoolHasRoom(pool, size) == Len(pool) < size

\* the hosts whose config entry carries a root password (self.root_password)
RootPasswordHosts == {"no_memory", "zfs", "sudoers"}

\* what `id -u` prints ("0" for root), or "raise" when ssh.run raises
IdAnswers == {"0", "1000", "raise"}

\* what whoami prints after `sudo -S -i`, or "raise" when one of the two commands raises
SudoAnswers == {"root", "user", "raise"}

\* the answers a new session of this host gives to the commands of
\* _setup_connection_permissions; on "sudoers" each of them can also run into its timeout
PrivAnswers(h) ==
    CASE h \in {"full", "untitled"} ->
                {[id_u |-> "0", sudo_root |-> "root", sudo_login |-> "root"]}
      [] h = "headless" -> {[id_u |-> "1000", sudo_root |-> "user", sudo_login |-> "user"]}
      [] h = "no_uptime" -> {[id_u |-> "1000", sudo_root |-> "user", sudo_login |-> "root"],
                             [id_u |-> "1000", sudo_root |-> "user", sudo_login |-> "user"]}
      [] h = "no_memory" -> {[id_u |-> "1000", sudo_root |-> "root", sudo_login |-> "user"],
                             [id_u |-> "1000", sudo_root |-> "user", sudo_login |-> "user"]}
      [] h = "zfs" -> {[id_u |-> "1000", sudo_root |-> "root", sudo_login |-> "user"]}
      [] OTHER -> [id_u : IdAnswers, sudo_root : SudoAnswers, sudo_login : SudoAnswers]

\* one command of the negotiation and what it answered
Step(name, answer) == [step |-> name, answer |-> answer]

\* a negotiation that tries the login password before the root password
SetupConnectionPermissionsLoginFirst(root_password, a) ==
    LET id == <<Step("id", a.id_u)>>
        root == IF root_password THEN <<Step("root_password", a.sudo_root)>> ELSE <<>>
        login == <<Step("login_password", a.sudo_login)>>
    IN IF a.id_u = "raise" THEN [use_sudo |-> TRUE, transcript |-> id]
       ELSE IF a.id_u = "0" THEN [use_sudo |-> FALSE, transcript |-> id]
       ELSE IF a.sudo_login = "root" THEN [use_sudo |-> FALSE, transcript |-> id \o login]
       ELSE IF root_password /\ a.sudo_root = "root"
            THEN [use_sudo |-> FALSE, transcript |-> id \o login \o root]
       ELSE [use_sudo |-> TRUE, transcript |-> id \o login \o root]

\* _setup_connection_permissions: the value it leaves in self.use_sudo and the commands
\* it ran with their answers.  An exception of `id -u` reaches the outer except clause;
\* an exception of an escalation attempt is passed over by the inner one.
SetupConnectionPermissions(root_password, a) ==
    LET id == <<Step("id", a.id_u)>>
        root == IF root_password THEN <<Step("root_password", a.sudo_root)>> ELSE <<>>
        login == <<Step("login_password", a.sudo_login)>>
    IN IF a.id_u = "raise" THEN [use_sudo |-> TRUE, transcript |-> id]
       ELSE IF a.id_u = "0" THEN [use_sudo |-> FALSE, transcript |-> id]
       ELSE IF root_password /\ a.sudo_root = "root"
            THEN [use_sudo |-> FALSE, transcript |-> id \o root]
       ELSE IF a.sudo_login = "root"
            THEN [use_sudo |-> FALSE, transcript |-> id \o root \o login]
       ELSE [use_sudo |-> TRUE, transcript |-> id \o root \o login]

\* no negotiation ran
NoNegotiation == <<>>

\* ssh.close() succeeded on a session that the processes in `owners` still use
CloseSession(sessf, owners) == [q \in Procs |-> IF q \in owners THEN "closed" ELSE sessf[q]]

\* where the caller of get_ssh_connection continues once it has a session
AfterAcquire(p) == IF p = Tick /\ stage = "connect" THEN "release" ELSE "exec"

\* get_ssh_connection raised e in process p
AcquireRaised(p, e) ==
    LET x == IF p = Tick /\ stage = "connect" THEN AsyncConnectExcept(e) ELSE RunCommandExcept(e)
    IN /\ pc' = [pc EXCEPT ![p] = "ret"]
       /\ result' = [result EXCEPT ![p] = x.returns]
       /\ err' = [err EXCEPT ![p] = ErrOf(x)]
       /\ UNCHANGED connection_id

\* a waiting loop that gives up without an exception
WaitTimeoutSilent(p) ==
    /\ pc' = [pc EXCEPT ![p] = "ret"]
    /\ result' = [result EXCEPT ![p] = ""]
    /\ err' = [err EXCEPT ![p] = NoErr]
    /\ UNCHANGED connection_id

\* the raise that follows the waiting loop
WaitTimeout(p) == AcquireRaised(p, "pool_exhausted")

\* get_ssh_connection returned (session of pair i, i - 1) to process p
AcquireReturned(p, i) ==
    /\ pc' = [pc EXCEPT ![p] = AfterAcquire(p)]
    /\ connection_id' = [connection_id EXCEPT ![p] = i - 1]
    /\ UNCHANGED <<result, err>>

HandOut(pool, i, p) ==
    [pool EXCEPT ![i].in_use = TRUE, ![i].owners = pool[i].owners \cup {p}]

\* a failed probe that leaves the session in the pool
AfterProbeKeeps(pool, i, probe_ok) == pool

\* the pool after the probe of pair i (0: no free pair): `except Exception:` closes the
\* session, pops the pair and breaks out of the scan
AfterProbe(pool, i, probe_ok) == IF i > 0 /\ ~probe_ok THEN Pop(pool, i) ELSE pool

\* what a scan of the pool did when the probe of pair i failed or a session was opened
\* (`transcript` is then the negotiation that ran on it); probes[j] is the outcome the
\* probe of pair j has at this moment
ProbeEvent(pool, i, probes, transcript) ==
    IF i > 0 /\ ~probes[i]
    THEN [type |-> "probe_failed",
          other_passes |-> \E j \in 1..Len(pool) : j # i /\ ~pool[j].in_use /\ probes[j],
          transcript |-> transcript]
    ELSE IF transcript # NoNegotiation
    THEN [type |-> "opened", transcript |-> transcript]
    ELSE NoEvent

\* get_ssh_connection up to its return, its raise, or the entry of the waiting loop
Acquire(p) ==
    /\ pc[p] = "acquire"
    /\ ssh_pool_lock = NoProc
    /\ \E probes \in [1..Len(ssh_pool) -> Outcomes], close_ok \in Outcomes,
          connect_ok \in Outcomes, answers \in PrivAnswers(host) :
        LET i == FirstFree(ssh_pool)
            probe_ok == i > 0 /\ probes[i]
            dropped == i > 0 /\ ~probe_ok
            pool1 == AfterProbe(ssh_pool, i, probe_ok)
            sess1 == IF dropped /\ close_ok THEN CloseSession(sess, ssh_pool[i].owners) ELSE sess
            opens == ~probe_ok /\ PoolHasRoom(pool1, ssh_pool_size) /\ connect_ok
            priv == SetupConnectionPermissions(host \in RootPasswordHosts, answers)
        IN
        /\ event' = ProbeEvent(ssh_pool, i, probes,
                               IF opens THEN priv.transcript ELSE NoNegotiation)
        /\ IF i > 0 /\ probe_ok
           THEN /\ ssh_pool' = HandOut(ssh_pool, i, p)
                /\ sess' = [sess EXCEPT ![p] = "open"]
                /\ AcquireReturned(p, i)
                /\ UNCHANGED <<ssh_pool_lock, use_sudo, polls>>
           ELSE IF PoolHasRoom(pool1, ssh_pool_size)
           THEN IF connect_ok
                THEN /\ ssh_pool' = Append(pool1, [in_use |-> TRUE, owners |-> {p},
                                                   fallback |-> priv.use_sudo])
                     /\ use_sudo' = priv.use_sudo
                     /\ sess' = [sess1 EXCEPT ![p] = "open"]
                     /\ AcquireReturned(p, Len(pool1) + 1)
                     /\ UNCHANGED <<ssh_pool_lock, polls>>
                ELSE /\ ssh_pool' = pool1
                     /\ sess' = sess1
                     /\ AcquireRaised(p, "connect")
                     /\ UNCHANGED <<ssh_pool_lock, use_sudo, polls>>
           ELSE /\ ssh_pool_lock' = p
                /\ pc' = [pc EXCEPT ![p] = "wait"]
                /\ polls' = 0
                /\ UNCHANGED <<ssh_pool, use_sudo, sess, connection_id, result, err>>
    /\ UNCHANGED <<ssh_pool_size, tickVars, retryVars, envVars, _system_online, data, kind>>

\* one iteration of `for _ in range(50)`: sleep 0.1 s with the lock held, then scan;
\* the raise after the last iteration belongs to that iteration's step
WaitPoll(p) ==
    /\ pc[p] = "wait"
    /\ ssh_pool_lock = p
    /\ polls < WaitPolls
    /\ \E probes \in [1..Len(ssh_pool) -> Outcomes], close_ok \in Outcomes :
        LET i == FirstFree(ssh_pool)
            probe_ok == i > 0 /\ probes[i]
            dropped == i > 0 /\ ~probe_ok
            pool1 == AfterProbe(ssh_pool, i, probe_ok)
            sess1 == IF dropped /\ close_ok THEN CloseSession(sess, ssh_pool[i].owners) ELSE sess
        IN
        /\ event' = ProbeEvent(ssh_pool, i, probes, NoNegotiation)
        /\ IF i > 0 /\ probe_ok
           THEN /\ ssh_pool' = HandOut(ssh_pool, i, p)
                /\ sess' = [sess EXCEPT ![p] = "open"]
                /\ AcquireReturned(p, i)
                /\ ssh_pool_lock' = NoProc
                /\ polls' = 0
           ELSE /\ ssh_pool' = pool1
                /\ sess' = sess1
                /\ IF polls + 1 = WaitPolls
                   THEN /\ WaitTimeout(p)
                        /\ ssh_pool_lock' = NoProc
                        /\ polls' = 0
                   ELSE /\ polls' = polls + 1
                        /\ UNCHANGED <<ssh_pool_lock, pc, connection_id, result, err>>
    /\ UNCHANGED <<ssh_pool_size, use_sudo, tickVars, retryVars, envVars,
                   _system_online, data, kind>>

\* the command a process passes to run_command
Cmd(p) ==
    IF p = Tick
    THEN CASE stage = "uptime" -> "uptime"
           [] stage = "sensors" -> "sensors"
           [] stage = "free" -> "free"
           [] stage = "vol" -> "vol"
           [] stage = "disks" -> "lsblk"
           [] stage = "zpools" -> "zpool_list"
           [] stage = "scrub" -> "zpool_status"
           [] stage = "ups" -> "ups"
           [] stage = "vms" -> "virsh_list"
           [] stage = "title" -> "virsh_dumpxml"
           [] OTHER -> "docker_ps"
    ELSE CASE kind[p] = "reboot" -> "reboot"
           [] kind[p] = "shutdown" -> "shutdown"
           [] kind[p] = "vm_reboot" -> "virsh_reboot"
           [] kind[p] = "vm_destroy" -> "virsh_destroy"
           [] kind[p] = "vm_start" -> "virsh_start"
           [] kind[p] = "vm_pause" -> "virsh_pause"
           [] kind[p] = "ups_poll" -> "ups"
           [] kind[p] = "container_restart" -> "docker_restart"
           [] OTHER -> "zpool_scrub"

\* run_command's first statement
RunCommandEntry(p) ==
    IF ~_system_online'
    THEN /\ pc' = [pc EXCEPT ![p] = "ret"]
         /\ result' = [result EXCEPT ![p] = ""]
         /\ err' = [err EXCEPT ![p] = [kind |-> "offline", raised |-> FALSE]]
    ELSE /\ pc' = [pc EXCEPT ![p] = "acquire"]
         /\ result' = [result EXCEPT ![p] = ""]
         /\ err' = [err EXCEPT ![p] = NoErr]

\* run_command's full_command: the command behind `sudo -S` or `sudo` when
\* self.use_sudo is set, the command itself otherwise
FullCommand(command, sudo) == [sudo |-> sudo, command |-> command]

\* `await ssh.run(...)` in run_command, and the return or the except clause after it
Exec(p) ==
    /\ pc[p] = "exec"
    /\ \E ok \in Outcomes, out \in HostAnswers(host, Cmd(p)) :
        LET fault == ~ok \/ sess[p] = "closed"
            x == RunCommandExcept("exec")
        IN /\ fault => out = HostAnswer(host, Cmd(p))
           /\ result' = [result EXCEPT ![p] = IF fault THEN x.returns ELSE out]
           /\ err' = [err EXCEPT ![p] = IF fault THEN ErrOf(x) ELSE NoErr]
    /\ pc' = [pc EXCEPT ![p] = "release"]
    /\ event' = [type |-> "exec", full_command |-> FullCommand(Cmd(p), use_sudo)]
    /\ UNCHANGED <<poolVars, connection_id, sess, polls, tickVars, retryVars, envVars,
                   _system_online, data, kind>>

\* release_ssh_connection(connection_id): the pair at that index is marked free
ReleaseConnection(pool, id) ==
    IF 0 <= id /\ id < Len(pool) THEN [pool EXCEPT ![id + 1].in_use = FALSE] ELSE pool

\* process p drops its local reference to the session
Forget(pool, p) == [i \in 1..Len(pool) |-> [pool[i] EXCEPT !.owners = @ \ {p}]]

\* release_ssh_connection, called by run_command's finally clause or by async_connect
Release(p) ==
    /\ pc[p] = "release"
    /\ ssh_pool_lock = NoProc
    /\ ssh_pool' = Forget(ReleaseConnection(ssh_pool, connection_id[p]), p)
    /\ sess' = [sess EXCEPT ![p] = "none"]
    /\ pc' = [pc EXCEPT ![p] = "ret"]
    /\ event' = NoEvent
    /\ UNCHANGED <<ssh_pool_size, ssh_pool_lock, use_sudo, connection_id,
                   result, err, polls, tickVars, retryVars, envVars,
                   _system_online, data, kind>>

\* a loop that the first close() failure ends
CloseAllCallsUntilFailure(pool, failing) ==
    {i \in 1..Len(pool) : \A j \in failing : i <= j}

\* the pairs (by index) close_all_ssh_connections calls close() on, when close()
\* raises for the pairs in `failing`
CloseAllCalls(pool, failing) == 1..Len(pool)

\* the pool that close_all_ssh_connections leaves
CloseAllPool(pool) == <<>>

CloseFailures == IF flaky THEN SUBSET (1..Len(ssh_pool)) ELSE {{}}

\* what a run of close_all_ssh_connections did: the number of pooled sessions it did
\* not call close() on, the number of sessions it left in the pool, and whether the
\* pool held free and in-use sessions and a close() raised
CloseAllEvent(failing) ==
    [skipped |-> Len(ssh_pool) - Cardinality(CloseAllCalls(ssh_pool, failing)),
     left |-> Len(ssh_pool'),
     mixed |-> /\ failing # {}
               /\ \E i \in 1..Len(ssh_pool) : ssh_pool[i].in_use
               /\ \E i \in 1..Len(ssh_pool) : ~ssh_pool[i].in_use]

\* close_all_ssh_connections, entered with the lock free
CloseAll(failing) ==
    /\ ssh_pool' = CloseAllPool(ssh_pool)
    /\ sess' = CloseSession(sess, UNION {ssh_pool[i].owners :
                                          i \in CloseAllCalls(ssh_pool, failing) \ failing})
    /\ UNCHANGED <<ssh_pool_size, ssh_pool_lock, use_sudo>>

\* async_unload_entry up to async_disconnect: the platforms are unloaded and the pool
\* is closed
UnloadDisconnect ==
    /\ loaded = "loaded"
    /\ ssh_pool_lock = NoProc
    /\ \E failing \in CloseFailures :
        /\ CloseAll(failing)
        /\ event' = Merge([type |-> "close_all"], CloseAllEvent(failing))
    /\ loaded' = "unloading"
    /\ UNCHANGED <<pc, connection_id, result, err, polls, tickVars, retryVars, confVars,
                   diskVars, _system_online, data, kind>>

\* async_unload_entry after ups_coordinator.async_shutdown: the retry task is cancelled
UnloadCancel ==
    /\ loaded = "unloading"
    /\ loaded' = "unloaded"
    /\ IF _ping_task = "pending"
       THEN /\ _ping_task' = "done"
            /\ loops' = loops - 1
            /\ check_interval' = 0
            /\ attempts' = 0
            /\ UNCHANGED reloads
       ELSE UNCHANGED retryVars
    /\ event' = NoEvent
    /\ UNCHANGED <<poolVars, procVars, tickVars, confVars, diskVars, _system_online, data,
                   kind>>

\* ---------------------------------------------------------------- action calls

\* DockerManager.control_container: got output that is not an error text
ControlContainerSuccess(out) == out # "" /\ out # "cannot"

\* a list of valid actions that lets every action through
ValidActionsAny == {"start", "shutdown", "reboot", "destroy", "pause"}

\* control_vm's valid_actions
ValidActions == {"start", "shutdown", "reboot", "destroy"}

\* the actions passed to UPSDataUpdateCoordinator.control_vm: one that no button passes
\* and one that control_vm does not know
VmCallActions == {"start", "pause"}

\* the kind of action call that control_vm(vm_name, action) is
VmKind(action) ==
    CASE action = "start" -> "vm_start"
      [] action = "reboot" -> "vm_reboot"
      [] action = "destroy" -> "vm_destroy"
      [] action = "shutdown" -> "vm_shutdown"
      [] OTHER -> "vm_pause"

VmKinds == {"vm_start", "vm_reboot", "vm_destroy", "vm_shutdown", "vm_pause"}

\* control_vm's return value once run_command has returned `out`
control_vm(out) == TRUE

\* str.lower() on the outputs of the scrub command
Lower(out) == IF out = "Cannot scrub tank: busy" THEN "cannot scrub tank: busy" ELSE out

\* str.startswith("cannot") on the outputs of the scrub command
StartsWithCannot(out) ==
    out \in {"cannot open 'tank': no such pool", "cannot scrub tank: busy"}

\* a success test that compares the output as it is printed
scrub_zpool_case_sensitive(out) == out # "" /\ ~StartsWithCannot(out)

\* scrub_zpool's return value once run_command has returned `out`
scrub_zpool(out) == out # "" /\ ~StartsWithCannot(Lower(out))

\* async_press of a button (or the switch's shutdown) up to its first await
Press(p, k) ==
    /\ p \in users
    /\ pc[p] = "idle"
    /\ loaded = "loaded"
    /\ k \in Buttons(host)
    /\ k = "container_restart" => enable_docker
    /\ k = "scrub" => ~(PoolName \in DOMAIN data.scrub_status
                        /\ data.scrub_status[PoolName].scrub_in_progress)
    /\ kind' = [kind EXCEPT ![p] = k]
    /\ data' = IF k = "container_restart"
               THEN SetContainerStatus(data, ContainerName, "restarting") ELSE data
    /\ UNCHANGED _system_online
    /\ RunCommandEntry(p)
    /\ event' = NoEvent
    /\ UNCHANGED <<poolVars, connection_id, sess, polls, tickVars, retryVars, envVars>>

\* what the action call does to coordinator.data once run_command has returned
AfterAction(k, out, d) ==
    CASE k = "reboot" -> SetSystemStatus(d, "rebooting")
      [] k = "shutdown" -> SetSystemStatus(d, "off")
      [] k = "vm_reboot" -> IF control_vm(out) THEN SetVmState(d, VMName, "rebooting") ELSE d
      [] k = "vm_destroy" -> IF control_vm(out) THEN SetVmState(d, VMName, "destroying") ELSE d
      [] k = "container_restart" ->
            IF ControlContainerSuccess(out) THEN d
            ELSE SetContainerStatus(d, ContainerName, "running")
      [] OTHER -> d

\* control_vm called through UPSDataUpdateCoordinator.control_vm, up to its first await
\* or, for an action that is not valid, to its return
ControlVm(p, action) ==
    /\ p \in users
    /\ pc[p] = "idle"
    /\ loaded = "loaded"
    /\ action \in VmCallActions
    /\ UNCHANGED <<_system_online, data>>
    /\ IF action \notin ValidActions
       THEN UNCHANGED <<kind, pc, result, err>>
       ELSE /\ kind' = [kind EXCEPT ![p] = VmKind(action)]
            /\ RunCommandEntry(p)
    /\ event' = [type |-> "vm_call", action |-> action,
                 rejected |-> (action \notin ValidActions)]
    /\ UNCHANGED <<poolVars, connection_id, sess, polls, tickVars, retryVars, envVars>>

\* UPSDataUpdateCoordinator._async_update_data up to its first await, or to its return
\* when the host is offline
UpsPoll(p) ==
    /\ p \in users
    /\ pc[p] = "idle"
    /\ loaded = "loaded"
    /\ UNCHANGED <<_system_online, data>>
    /\ IF ~_system_online
       THEN UNCHANGED <<kind, pc, result, err>>
       ELSE /\ kind' = [kind EXCEPT ![p] = "ups_poll"]
            /\ RunCommandEntry(p)
    /\ event' = NoEvent
    /\ UNCHANGED <<poolVars, connection_id, sess, polls, tickVars, retryVars, envVars>>

\* what an action call with a boolean result returns
ReturnEvent(k, out, e) ==
    IF k \in VmKinds
    THEN [type |-> "action", kind |-> k, success |-> control_vm(out), output |-> out,
          cause |-> e.kind]
    ELSE IF k = "scrub"
    THEN [type |-> "action", kind |-> k, success |-> scrub_zpool(out), output |-> out,
          cause |-> e.kind]
    ELSE NoEvent

\* the action call from the return of run_command to its own return
Return(p) ==
    /\ p \in Callers
    /\ pc[p] = "ret"
    /\ data' = AfterAction(kind[p], result[p], data)
    /\ kind' = [kind EXCEPT ![p] = "none"]
    /\ pc' = [pc EXCEPT ![p] = "idle"]
    /\ connection_id' = [connection_id EXCEPT ![p] = -1]
    /\ result' = [result EXCEPT ![p] = ""]
    /\ err' = [err EXCEPT ![p] = NoErr]
    /\ event' = ReturnEvent(kind[p], result[p], err[p])
    /\ UNCHANGED <<poolVars, sess, polls, tickVars, retryVars, envVars, _system_online>>

\* ---------------------------------------------------------------- extractors

UptimeSample == 93784

\* SystemManager.format_uptime: the parts of the formatted string
format_uptime(seconds) ==
    LET days == seconds \div 86400
        hours == (seconds % 86400) \div 3600
        minutes == (seconds % 3600) \div 60
        d == IF days >= 1 THEN <<<<days, "days">>>> ELSE <<>>
        h == IF hours >= 1 THEN <<<<hours, "hours">>>> ELSE <<>>
    IN d \o h \o (IF minutes >= 1 \/ d \o h = <<>> THEN <<<<minutes, "minutes">>>> ELSE <<>>)

\* get_system_info, the part that follows `cat /proc/uptime`
SystemUptime(out) ==
    IF out = "ok"
    THEN [uptime_seconds |-> UptimeSample, uptime |-> format_uptime(UptimeSample)]
    ELSE [uptime_seconds |-> 0, uptime |-> "unknown"]

\* get_temperatures_from_sensors
SystemTemperatures(out) ==
    IF out = "ok"
    THEN [cpu_temperature |-> "45.0 C", motherboard_temperature |-> "38.0 C"]
    ELSE [cpu_temperature |-> "unknown", motherboard_temperature |-> "unknown"]

\* get_memory_info
get_memory_info(out) ==
    IF out = "ok"
    THEN [memory_total |-> 8, memory_used |-> 3, memory_available |-> 5]
    ELSE EmptyDict

\* get_vol_usage, its volume discovery taken as one command
get_vol_usage(out) ==
    IF out = "ok" THEN [volumes |-> [vol1 |-> [use_percent |-> "40%"]]]
    ELSE [volumes |-> EmptyDict]

\* the tick's locals before the online path assigns them; ran counts the extractor
\* commands the tick has started
EmptyWork ==
    [system |-> EmptyDict, disks |-> <<>>, zpools |-> <<>>, scrub_status |-> EmptyDict,
     ups |-> EmptyDict, vms |-> <<>>, docker_containers |-> <<>>, ran |-> 0]

\* the assignment to the tick's locals that follows the command of stage st
Absorb(st, out, w) ==
    CASE st = "uptime" -> [w EXCEPT !.system = Merge(w.system, SystemUptime(out))]
      [] st = "sensors" -> [w EXCEPT !.system = Merge(w.system, SystemTemperatures(out))]
      [] st = "free" -> [w EXCEPT !.system = Merge(w.system, get_memory_info(out))]
      [] st = "vol" -> [w EXCEPT !.system = Merge(w.system, get_vol_usage(out))]
      [] st = "disks" -> [w EXCEPT !.disks =
             IF out = "ok" THEN <<[device |-> "sda", status |-> "active"]>> ELSE <<>>]
      [] st = "zpools" -> [w EXCEPT !.zpools =
             IF out = "ok" THEN <<[name |-> PoolName, health |-> "ONLINE"]>> ELSE <<>>]
      [] st = "scrub" -> [w EXCEPT !.scrub_status =
             (PoolName :> [scrub_in_progress |-> FALSE, found |-> (out = "ok")])]
      [] st = "ups" -> [w EXCEPT !.ups = IF out = "ok" THEN [status |-> "OL"] ELSE EmptyDict]
      [] st = "vms" -> [w EXCEPT !.vms =
             IF out = "ok" THEN <<[id |-> "1", name |-> VMName, state |-> "running", title |-> ""]>>
             ELSE <<>>]
      [] st = "title" -> [w EXCEPT !.vms =
             <<[w.vms[1] EXCEPT !.title = IF out = "ok" THEN "title" ELSE w.vms[1].name]>>]
      [] st = "docker" -> [w EXCEPT !.docker_containers =
             IF out = "ok" THEN <<[name |-> ContainerName, status |-> "running"]>> ELSE <<>>]
      [] OTHER -> w

\* a tick that lists the containers whatever the feature flag says
DockerAlways == "docker"

\* `if self.enable_docker and self.docker_manager`
DockerOrBuild == IF enable_docker THEN "docker" ELSE "build"

\* the statement of the online path that follows stage st
NextStage(st, w) ==
    CASE st = "connect" -> "uptime"
      [] st = "uptime" -> "sensors"
      [] st = "sensors" -> "free"
      [] st = "free" -> "vol"
      [] st = "vol" -> "disks"
      [] st = "disks" -> "zpools"
      [] st = "zpools" -> IF w.zpools # <<>> THEN "scrub" ELSE "ups"
      [] st = "scrub" -> "ups"
      [] st = "ups" -> "vms"
      [] st = "vms" -> IF w.vms # <<>> THEN "title" ELSE DockerOrBuild
      [] st = "title" -> DockerOrBuild
      [] OTHER -> "build"

\* extractors whose code is not in the source tree and that may raise into the tick:
\* DiskManager.get_zpools / get_zpool_status and UPSManager.get_ups_info
RaisingStages == {"zpools", "scrub", "ups"}

\* an online snapshot without the scrub_status key
BuildDataNoScrub(w) ==
    [disks |-> w.disks,
     system |-> Merge(w.system, [status |-> "on"]),
     ups |-> w.ups,
     vms |-> w.vms,
     docker_containers |-> w.docker_containers,
     zpools |-> w.zpools]

\* the dict built at the end of the online path
BuildData(w) ==
    [disks |-> w.disks,
     system |-> Merge(w.system, [status |-> "on"]),
     ups |-> w.ups,
     vms |-> w.vms,
     docker_containers |-> w.docker_containers,
     zpools |-> w.zpools,
     scrub_status |-> w.scrub_status]

\* ---------------------------------------------------------------- tick

\* a retry loop started on every offline tick
RetryNeededAlways(task) == TRUE

\* `if not self._ping_task or self._ping_task.done()`
RetryNeeded(task) == task \in {"none", "done"}

\* the guarded `self._ping_task = asyncio.create_task(self._monitor_system_status())`
ArmRetry ==
    IF RetryNeeded(_ping_task)
    THEN /\ _ping_task' = "pending"
         /\ check_interval' = RetryIntervalStart
         /\ attempts' = 0
         /\ loops' = loops + 1
         /\ UNCHANGED reloads
    ELSE UNCHANGED retryVars

TickReset ==
    /\ pc' = [pc EXCEPT ![Tick] = "idle"]
    /\ connection_id' = [connection_id EXCEPT ![Tick] = -1]
    /\ result' = [result EXCEPT ![Tick] = ""]
    /\ err' = [err EXCEPT ![Tick] = NoErr]
    /\ work' = EmptyWork
    /\ stage' = "none"

\* the timer calls _async_update_data, which awaits ping_system
TickStart ==
    /\ stage = "none"
    /\ loaded = "loaded"
    /\ stage' = "probe"
    /\ event' = NoEvent
    /\ UNCHANGED <<poolVars, procVars, work, retryVars, envVars, _system_online, data, kind>>

\* the offline branch from close_all_ssh_connections (entered with the lock free) on;
\* the returned snapshot is published as coordinator.data
TickReturnOffline ==
    /\ \E failing \in CloseFailures :
        /\ CloseAll(failing)
        /\ event' = Merge([type |-> "tick", path |-> "offline", ran |-> work.ran],
                          CloseAllEvent(failing))
    /\ data' = get_default_data
    /\ stage' = "none"
    /\ UNCHANGED <<pc, connection_id, result, err, work>>

\* a state that stays offline while a retry loop is running
OnlineAfterProbeSticky(is_online, was_online, task) == is_online /\ task # "pending"

\* `self._system_online = is_online`
OnlineAfterProbe(is_online, was_online, task) == is_online

\* ping_system returns; the offline branch, or the online path up to async_connect
TickProbe ==
    /\ stage = "probe"
    /\ \E is_online \in BOOLEAN :
        /\ _system_online' = OnlineAfterProbe(is_online, _system_online, _ping_task)
        /\ IF ~is_online
           THEN /\ ArmRetry
                /\ IF ssh_pool_lock = NoProc
                   THEN TickReturnOffline
                   ELSE /\ stage' = "closing"
                        /\ event' = NoEvent
                        /\ UNCHANGED <<poolVars, pc, connection_id, sess, result, err,
                                       work, data>>
           ELSE /\ stage' = "connect"
                /\ pc' = [pc EXCEPT ![Tick] = "acquire"]
                /\ event' = NoEvent
                /\ UNCHANGED <<poolVars, connection_id, sess, result, err, work,
                               retryVars, data>>
    /\ UNCHANGED <<polls, envVars, kind>>

\* close_all_ssh_connections gets the lock it waited for; the offline branch returns
TickCloseAll ==
    /\ stage = "closing"
    /\ ssh_pool_lock = NoProc
    /\ TickReturnOffline
    /\ UNCHANGED <<polls, retryVars, envVars, _system_online, kind>>

\* the except clause of the online path
TickReturnException ==
    /\ _system_online' = FALSE
    /\ ArmRetry
    /\ data' = get_default_data
    /\ event' = [type |-> "tick", path |-> "exception", ran |-> work.ran]
    /\ TickReset
    /\ UNCHANGED <<poolVars, sess>>

\* the online path between the return of one command and the await of the next
TickAdvance ==
    /\ pc[Tick] = "ret"
    /\ LET w1 == Absorb(stage, result[Tick], work)
           n == NextStage(stage, w1)
       IN \E raises \in BOOLEAN :
           /\ raises => (n \in RaisingStages \/ err[Tick].raised)
           /\ err[Tick].raised => raises
           /\ IF raises
              THEN TickReturnException
              ELSE IF n = "build"
              THEN /\ data' = BuildData(w1)
                   /\ event' = [type |-> "tick", path |-> "online", ran |-> w1.ran]
                   /\ TickReset
                   /\ UNCHANGED <<poolVars, sess, retryVars, _system_online>>
              ELSE /\ stage' = n
                   /\ work' = [w1 EXCEPT !.ran = @ + 1]
                   /\ connection_id' = [connection_id EXCEPT ![Tick] = -1]
                   /\ UNCHANGED _system_online
                   /\ RunCommandEntry(Tick)
                   /\ event' = NoEvent
                   /\ UNCHANGED <<poolVars, sess, retryVars, data>>
    /\ UNCHANGED <<polls, envVars, kind>>

\* ---------------------------------------------------------------- retry loop

\* a backoff without the cap
NextIntervalUncapped(iv) == (iv * 3) \div 2

\* min(check_interval * 1.5, max_interval), in 1/32 s
NextInterval(iv) ==
    IF (iv * 3) \div 2 < RetryIntervalMax THEN (iv * 3) \div 2 ELSE RetryIntervalMax

\* a loop that goes on after it has requested the reload
RetrySuccessTaskNoBreak == "pending"

\* the state of the retry task after the `break` that follows the reload request
RetrySuccessTask == "done"

\* a retry loop that marks the host online itself
OnlineAfterRetryFlips(ok, was_online) == ok \/ was_online

\* the online state after a probe of _monitor_system_status, which does not assign it
OnlineAfterRetry(ok, was_online) == was_online

\* _monitor_system_status: one sleep of check_interval followed by one ping
RetryProbe ==
    /\ _ping_task = "pending"
    /\ \E ok \in BOOLEAN :
        /\ IF ok
           THEN /\ reloads < MaxReloads
                /\ reloads' = reloads + 1
                /\ _ping_task' = RetrySuccessTask
                /\ loops' = IF RetrySuccessTask = "done" THEN loops - 1 ELSE loops
                /\ check_interval' = IF RetrySuccessTask = "done" THEN 0 ELSE check_interval
                /\ UNCHANGED attempts
           ELSE /\ attempts < MaxAttempts
                /\ attempts' = attempts + 1
                /\ check_interval' = NextInterval(check_interval)
                /\ UNCHANGED <<_ping_task, loops, reloads>>
        /\ event' = [type |-> "retry", ok |-> ok, waited |-> check_interval]
        /\ _system_online' = OnlineAfterRetry(ok, _system_online)
    /\ UNCHANGED <<poolVars, procVars, tickVars, envVars, data, kind>>

\* ---------------------------------------------------------------- disk extractor

\* Strings of the disk records: "unknown" stands for the sentinel "未知", "undetected"
\* for "未检测", "failed" for "检测失败"; the activities "active", "idle" and "dormant"
\* stand for "活动中", "空闲中" and "休眠中".

NoPoll == [running |-> FALSE, todo |-> <<>>]

\* CONF_IGNORE_DISKS of the sample configuration
IgnoreDisks == {"sdx"}

\* outputs of `lsblk -dno NAME,TYPE`: nothing, one disk, two disks among other devices
LsblkSamples ==
    {<<>>,
     <<[name |-> "sda", type |-> "disk"]>>,
     <<[name |-> "sda", type |-> "disk"], [name |-> "loop0", type |-> "loop"],
       [name |-> "sdx", type |-> "disk"], [name |-> "sdb", type |-> "disk"]>>}

KeepDevice(e) == e.name \notin IgnoreDisks /\ e.type \in {"disk", "nvme", "rom"}

\* the devices get_disks_info processes, in order
EnumerateDisks(lsblk) ==
    LET kept == SelectSeq(lsblk, KeepDevice) IN [i \in 1..Len(kept) |-> kept[i].name]

\* what get_disk_power_state returns
PowerStates == {"active", "standby"}

\* outputs of `cat /sys/block/<device>/device/state || echo 'unknown'`
StateOutputs == {"running", "active", "standby", "sleep", "unknown"}

\* what `hdparm -C /dev/<device> || echo 'unknown'` reports as the drive state
HdparmOutputs == {"standby", "sleeping", "active/idle", "unknown"}

\* get_disk_power_state: the state file first, hdparm when the state file does not tell
get_disk_power_state(state, hdparm_output) ==
    IF state \in {"running", "active"} THEN "active"
    ELSE IF state \in {"standby", "sleep"} THEN state
    ELSE IF hdparm_output = "standby" THEN "standby"
    ELSE IF hdparm_output = "sleeping" THEN "sleep"
    ELSE IF hdparm_output = "active/idle" THEN "active"
    ELSE "unknown"

\* the number of fields a complete /sys/block/<device>/stat line has at least
StatFields == 11

\* no output of `cat /sys/block/<device>/stat`
NoStat == [fields |-> 0, in_flight |-> 0, read_ios |-> 0, write_ios |-> 0, io_ticks |-> 0]

\* outputs of `cat /sys/block/<device>/stat`
StatSamples ==
    {NoStat,
     [fields |-> StatFields, in_flight |-> 1, read_ios |-> 5, write_ios |-> 3, io_ticks |-> 1000],
     [fields |-> StatFields, in_flight |-> 0, read_ios |-> 5, write_ios |-> 3, io_ticks |-> 1000],
     [fields |-> StatFields, in_flight |-> 0, read_ios |-> 6, write_ios |-> 3, io_ticks |-> 1000]}

\* the I/O activity threshold on io_ticks, in ms
IoTicksThreshold == 100

Get(f, k, default) == IF k \in DOMAIN f THEN f[k] ELSE default

\* outputs of `cat /sys/block/<device>/stat` next to the cached counters 5, 3 and
\* 1000 ms: the busy time grown by less and by more than the threshold, operations
\* grown while a request is in flight
StatSamplesWide ==
    StatSamples \cup
    {[fields |-> StatFields, in_flight |-> 0, read_ios |-> 5, write_ios |-> 3, io_ticks |-> 1050],
     [fields |-> StatFields, in_flight |-> 0, read_ios |-> 5, write_ios |-> 3, io_ticks |-> 1200],
     [fields |-> StatFields, in_flight |-> 0, read_ios |-> 5, write_ios |-> 4, io_ticks |-> 1000],
     [fields |-> StatFields, in_flight |-> 2, read_ios |-> 7, write_ios |-> 3, io_ticks |-> 1300]}

\* the counters cached at the previous poll
CachedCounters == [read_ios |-> 5, write_ios |-> 3, in_flight |-> 0, io_ticks |-> 1000]

\* contents of disk_io_stats_cache before a call: empty, the device alone, the device
\* and another one, another one alone
IoCacheSamples ==
    {EmptyDict,
     "sda" :> CachedCounters,
     ("sda" :> CachedCounters) @@ ("sdb" :> CachedCounters),
     "sdb" :> CachedCounters}

\* any growth of the busy time counts as recent I/O
RecentIoAnyTick(stat, cached) ==
    \/ stat.read_ios - Get(cached, "read_ios", 0) > 0
    \/ stat.write_ios - Get(cached, "write_ios", 0) > 0
    \/ stat.io_ticks - Get(cached, "io_ticks", 0) > 0

\* `read_diff > 0 or write_diff > 0 or io_ticks_diff > 100`
RecentIo(stat, cached) ==
    \/ stat.read_ios - Get(cached, "read_ios", 0) > 0
    \/ stat.write_ios - Get(cached, "write_ios", 0) > 0
    \/ stat.io_ticks - Get(cached, "io_ticks", 0) > IoTicksThreshold

\* the cache entry get_disk_activity writes
StatsOfActivity(stat) ==
    [read_ios |-> stat.read_ios, write_ios |-> stat.write_ios,
     in_flight |-> stat.in_flight, io_ticks |-> stat.io_ticks]

\* the cache entry check_disk_active writes
StatsOfCheck(stat) ==
    [read_ios |-> stat.read_ios, write_ios |-> stat.write_ios, io_ticks |-> stat.io_ticks]

\* get_disk_activity: the activity and the I/O cache it leaves
get_disk_activity(d, power, stat, io) ==
    IF power \in {"standby", "sleep"} THEN [status |-> "dormant", io |-> io]
    ELSE IF stat.fields < StatFields THEN [status |-> "active", io |-> io]
    ELSE IF stat.in_flight > 0 THEN [status |-> "active", io |-> io]
    ELSE IF d \in DOMAIN io
         THEN [status |-> IF RecentIo(stat, io[d]) THEN "active" ELSE "idle",
               io |-> Merge(io, d :> StatsOfActivity(stat))]
         ELSE [status |-> "active", io |-> Merge(io, d :> StatsOfActivity(stat))]

\* a check that lets a dormant device count as active
check_disk_active_wakes(d, power, stat, stat_again, io) ==
    LET a == get_disk_activity(d, power, stat, io) IN
    [active |-> TRUE, status |-> a.status, io |-> a.io]

\* check_disk_active: whether the device counts as active, and the I/O cache it leaves
check_disk_active(d, power, stat, stat_again, io) ==
    LET a == get_disk_activity(d, power, stat, io) IN
    CASE a.status = "dormant" -> [active |-> FALSE, status |-> a.status, io |-> a.io]
      [] a.status = "idle" ->
            IF stat_again.fields < StatFields THEN [active |-> FALSE, status |-> a.status, io |-> a.io]
            ELSE IF d \in DOMAIN a.io /\ RecentIo(stat_again, a.io[d])
            THEN [active |-> TRUE, status |-> a.status, io |-> a.io]
            ELSE [active |-> FALSE, status |-> a.status,
                  io |-> Merge(a.io, d :> StatsOfCheck(stat_again))]
      [] OTHER -> [active |-> TRUE, status |-> a.status, io |-> a.io]

ExpensiveFields ==
    {"model", "serial", "capacity", "health", "temperature", "power_on_hours"}

\* outcomes of the smartctl commands of one expensive probe: all three print a report
\* (with the temperature given), none prints anything, or the probe raises
ProbeSamples == {"35 C", "36 C", "nothing", "raise"}

\* _get_full_disk_info: the fields it assigns
get_full_disk_info(sample) ==
    IF sample = "nothing"
    THEN [model |-> "unknown", serial |-> "unknown", capacity |-> "unknown",
          health |-> "unknown", temperature |-> "unknown", power_on_hours |-> "unknown",
          attributes |-> EmptyDict]
    ELSE [model |-> "WD10EZEX", serial |-> "WD-1", capacity |-> "931.5 GB",
          health |-> "good", temperature |-> sample, power_on_hours |-> "100 h",
          attributes |-> EmptyDict]

\* `"未知" if not cached_info.get(f) else cached_info[f]`
CachedOr(cached, f, default) ==
    IF f \in DOMAIN cached /\ cached[f] # "" THEN cached[f] ELSE default

\* the except clause after _get_full_disk_info
ProbeFallback(disk_info, cached) ==
    Merge(Merge(disk_info, cached),
          [model |-> CachedOr(cached, "model", "unknown"),
           serial |-> CachedOr(cached, "serial", "unknown"),
           capacity |-> CachedOr(cached, "capacity", "unknown"),
           health |-> CachedOr(cached, "health", "failed"),
           temperature |-> CachedOr(cached, "temperature", "unknown"),
           power_on_hours |-> CachedOr(cached, "power_on_hours", "unknown"),
           attributes |-> Get(cached, "attributes", EmptyDict)])

\* the record of a device that is not active
InactiveRecord(disk_info, cached) ==
    Merge(disk_info,
          [model |-> Get(cached, "model", "undetected"),
           serial |-> Get(cached, "serial", "undetected"),
           capacity |-> Get(cached, "capacity", "undetected"),
           health |-> Get(cached, "health", "undetected"),
           temperature |-> Get(cached, "temperature", "undetected"),
           power_on_hours |-> Get(cached, "power_on_hours", "undetected"),
           attributes |-> Get(cached, "attributes", EmptyDict)])

\* a probe that runs for every device in every poll
ProbeDecisionAlways(forced, is_active) == TRUE

\* whether get_disks_info runs the expensive probe for a device
ProbeDecision(forced, is_active) == forced \/ is_active

\* a forced mode that ends with the first device
FirstRunAfterDeviceEnds(fr) == FALSE

\* first_run while get_disks_info is in its loop
FirstRunAfterDevice(fr) == fr

\* get_disks_info up to the end of the device enumeration
DiskPollStart ==
    /\ ~disk_poll.running
    /\ \E lsblk \in LsblkSamples :
        disk_poll' = [running |-> TRUE, todo |-> EnumerateDisks(lsblk)]
    /\ event' = NoEvent
    /\ UNCHANGED <<poolVars, procVars, tickVars, retryVars, confVars, loaded, first_run,
                   disk_full_info_cache, disk_io_stats_cache, _system_online, data, kind>>

\* the stat outputs to try after a power state: a device in standby is not read
StatsAfter(power) == IF power \in {"standby", "sleep"} THEN {NoStat} ELSE StatSamples

\* the effect of one iteration of the device loop, given what the commands answered
DiskPollDeviceWith(d, a, c, sample) ==
    LET disk_info == [device |-> d, status |-> a.status]
        cached == Get(disk_full_info_cache, d, EmptyDict)
        probed == ProbeDecision(first_run, c.active)
        record == IF ~probed THEN InactiveRecord(disk_info, cached)
                  ELSE IF sample = "raise" THEN ProbeFallback(disk_info, cached)
                  ELSE Merge(disk_info, get_full_disk_info(sample))
    IN
    /\ disk_io_stats_cache' = c.io
    /\ disk_full_info_cache' =
            IF probed /\ sample # "raise"
            THEN Merge(disk_full_info_cache, d :> record) ELSE disk_full_info_cache
    /\ disk_poll' = [disk_poll EXCEPT !.todo = Tail(@)]
    /\ first_run' = FirstRunAfterDevice(first_run)
    /\ event' = [type |-> "disk", device |-> d, forced |-> first_run,
                 checked |-> c.status, probed |-> probed,
                 sample |-> IF probed THEN sample ELSE "none", record |-> record]

\* one iteration of the device loop of get_disks_info
DiskPollDevice ==
    /\ disk_poll.running /\ disk_poll.todo # <<>>
    /\ \E power \in PowerStates : \E stat \in StatsAfter(power) :
        LET d == Head(disk_poll.todo)
            a == get_disk_activity(d, power, stat, disk_io_stats_cache)
        IN
        IF first_run
        THEN \E sample \in ProbeSamples :
                DiskPollDeviceWith(d, a, [active |-> TRUE, status |-> "none", io |-> a.io],
                                   sample)
        ELSE \E power2 \in PowerStates : \E stat2 \in StatsAfter(power2) :
                LET a2 == get_disk_activity(d, power2, stat2, a.io) IN
                \E stat3 \in (IF a2.status = "idle" THEN StatSamples ELSE {NoStat}) :
                    LET c == check_disk_active(d, power2, stat2, stat3, a.io) IN
                    \E sample \in (IF c.active THEN ProbeSamples ELSE {"nothing"}) :
                        DiskPollDeviceWith(d, a, c, sample)
    /\ UNCHANGED <<poolVars, procVars, tickVars, retryVars, confVars, loaded,
                   _system_online, data, kind>>

\* a tick that finds the host offline while no disk poll is in progress:
\* _async_update_data returns the default snapshot before it calls any extractor, the
\* disk extractor included
DiskTickOffline ==
    /\ ~disk_poll.running
    /\ data' = get_default_data
    /\ event' = [type |-> "tick", path |-> "offline", ran |-> 0]
    /\ UNCHANGED <<poolVars, procVars, tickVars, retryVars, envVars, _system_online, kind>>

\* a poll that leaves the forced mode on
DiskPollEndKeeps ==
    /\ disk_poll.running /\ disk_poll.todo = <<>>
    /\ disk_poll' = NoPoll
    /\ event' = NoEvent
    /\ UNCHANGED <<poolVars, procVars, tickVars, retryVars, confVars, loaded, first_run,
                   disk_full_info_cache, disk_io_stats_cache, _system_online, data, kind>>

\* get_disks_info after its device loop
DiskPollEnd ==
    /\ disk_poll.running /\ disk_poll.todo = <<>>
    /\ first_run' = FALSE
    /\ disk_poll' = NoPoll
    /\ event' = NoEvent
    /\ UNCHANGED <<poolVars, procVars, tickVars, retryVars, confVars, loaded,
                   disk_full_info_cache, disk_io_stats_cache, _system_online, data, kind>>

\* ---------------------------------------------------------------- parsers

\* A piece of text that holds one word: the word in upper case, the letter case it is
\* printed in, and whether white space surrounds it.
Casings == {"upper", "lower", "mixed"}

Word(w, c, pad) == [word |-> w, casing |-> c, pad |-> pad]

\* str.strip()
Strip(v) == [v EXCEPT !.pad = FALSE]

\* str.upper()
Upper(v) == [v EXCEPT !.casing = "upper"]

\* the words smartctl -H may print after the health label; the last is in no table
HealthWords == {"PASSED", "PASS", "OK", "GOOD", "FAILED", "FAIL", "ERROR", "WARNING",
                "CRITICAL", "UNKNOWN", "NOT AVAILABLE", "DEGRADED"}

\* outputs of `smartctl -H`: nothing, a report without a health line, a report with one
HealthOutputs ==
    {[kind |-> "empty", value |-> Word("", "upper", FALSE)],
     [kind |-> "no_line", value |-> Word("", "upper", FALSE)]}
    \cup {[kind |-> "line", value |-> Word(w, c, pad)] :
            w \in HealthWords, c \in Casings, pad \in BOOLEAN}

\* extract_value(text, patterns, default) for a text with at most one matching line
extract_value(text, default) ==
    IF text.kind = "empty" THEN default
    ELSE IF text.kind = "line" THEN Strip(text.value)
    ELSE default

\* health_map; "good" stands for 良好, "faulty" for 故障, "error" for 错误, "warning" for
\* 警告, "critical" for 严重, "unknown" for 未知 and "unavailable" for 不可用
health_map ==
    [w \in HealthWords \ {"DEGRADED"} |->
        CASE w \in {"PASSED", "PASS", "OK", "GOOD"} -> "good"
          [] w \in {"FAILED", "FAIL"} -> "faulty"
          [] w = "ERROR" -> "error"
          [] w = "WARNING" -> "warning"
          [] w = "CRITICAL" -> "critical"
          [] w = "UNKNOWN" -> "unknown"
          [] OTHER -> "unavailable"]

\* dict.get(key, default) for a key that is a piece of text: the keys are in upper case
\* and have no white space around them
MapGet(map, key, default) ==
    IF key.word \in DOMAIN map /\ key.casing = "upper" /\ ~key.pad
    THEN map[key.word] ELSE default

\* a lookup key taken as printed
HealthKeyAsPrinted(raw) == Strip(raw)

\* `raw_health.strip().upper()`
HealthKey(raw) == Upper(Strip(raw))

\* the health field that _get_full_disk_info assigns for an output of smartctl -H
HealthOf(health_output) ==
    LET raw_health == extract_value(health_output, Word("UNKNOWN", "upper", FALSE))
    IN MapGet(health_map, HealthKey(raw_health), "unknown")

\* _get_full_disk_info maps one health output
CallHealth ==
    /\ \E health_output \in HealthOutputs :
        event' = [type |-> "call", fn |-> "health", arg |-> health_output,
                  out |-> HealthOf(health_output)]
    /\ UNCHANGED <<poolVars, procVars, tickVars, retryVars, envVars, _system_online, data,
                   kind>>

\* Byte counts exceed the range of the model's integers: a natural number is the
\* sequence of its base-1024 digits, lowest first, without leading zero digits.
Base == 1024

\* n * m + c for a small factor m and a carry c
RECURSIVE MulAdd(_, _, _)
MulAdd(n, m, c) ==
    IF n = <<>> THEN (IF c = 0 THEN <<>> ELSE <<c>>)
    ELSE LET t == Head(n) * m + c IN <<t % Base>> \o MulAdd(Tail(n), m, t \div Base)

\* float() of a run of decimal digits, highest first, continuing from acc
RECURSIVE ParseDecimal(_, _)
ParseDecimal(ds, acc) ==
    IF ds = <<>> THEN acc ELSE ParseDecimal(Tail(ds), MulAdd(acc, 10, Head(ds)))

\* n * 1024^k
Shift(n, k) == IF n = <<>> THEN n ELSE [i \in 1..k |-> 0] \o n

\* a number of at most three digits as an integer
RECURSIVE ToInt(_)
ToInt(n) == IF n = <<>> THEN 0 ELSE Head(n) + Base * ToInt(Tail(n))

\* floor(n / 1024^u), as a number
Above(n, u) == SubSeq(n, u + 1, Len(n))

\* the capacity texts: the digits before the decimal point, the digit after it (-1 when
\* there is none), whether the digits are grouped by commas, and the unit as printed
CapacityNumbers ==
    {[int |-> <<2>>, frac |-> -1, commas |-> FALSE],
     [int |-> <<5, 0, 0>>, frac |-> -1, commas |-> FALSE],
     [int |-> <<1>>, frac |-> 5, commas |-> FALSE],
     [int |-> <<1, 0, 2, 3>>, frac |-> 9, commas |-> FALSE],
     [int |-> <<1, 0, 2, 4>>, frac |-> -1, commas |-> TRUE]}

BigCapacityNumber ==
    [int |-> <<1, 0, 0, 0, 2, 0, 4, 8, 8, 6, 0, 1, 6>>, frac |-> -1, commas |-> TRUE]

CapacityUnits == {"bytes", "byte", "B", "KB", "KiB", "MB", "MiB", "GB", "GiB", "gb",
                  "TB", "TiB", ""}

CapacityTexts ==
    {[known |-> FALSE, number |-> [int |-> <<>>, frac |-> -1, commas |-> FALSE], unit |-> ""]}
    \cup {[known |-> TRUE, number |-> n, unit |-> u] :
            n \in CapacityNumbers, u \in CapacityUnits}
    \cup {[known |-> TRUE, number |-> BigCapacityNumber, unit |-> u] :
            u \in {"bytes", "B", ""}}

\* group 2 of `(\d+(?:\.\d+)?)\s*([KMGT]?B|bytes?)` with re.IGNORECASE, upper-cased: the
\* unit has to follow the number at once, so "GiB" gives no match at all ("" here), and
\* of "bytes" the first alternative takes the "b"
UnitGroup(unit) ==
    CASE unit \in {"bytes", "byte", "B"} -> "B"
      [] unit = "KB" -> "KB"
      [] unit = "MB" -> "MB"
      [] unit \in {"GB", "gb"} -> "GB"
      [] unit = "TB" -> "TB"
      [] OTHER -> ""

\* the power of 1024 of a matched unit
UnitPower(unit) ==
    CASE unit \in {"B", "BYTE", "BYTES"} -> 0
      [] unit \in {"KB", "KIB"} -> 1
      [] unit \in {"MB", "MIB"} -> 2
      [] unit \in {"GB", "GIB"} -> 3
      [] unit \in {"TB", "TIB"} -> 4
      [] OTHER -> 0

\* ten times bytes_value
BytesTimesTen(text, group) ==
    IF group = ""
    THEN \* no match: the longest run of digits (the first of the longest), as bytes
         MulAdd(ParseDecimal(text.number.int, <<>>), 10, 0)
    ELSE Shift(MulAdd(ParseDecimal(text.number.int, <<>>), 10,
                      IF text.number.frac < 0 THEN 0 ELSE text.number.frac),
               UnitPower(group))

\* bytes_value >= 1024^u, on ten times bytes_value
AtLeast(n, u) == Len(Above(n, u)) >= 3 \/ ToInt(Above(n, u)) >= 10

RenderUnits == <<"B", "KB", "MB", "GB", "TB">>

\* the tenths that `f"{bytes_value / 1024**u:.1f}"` prints: round to nearest, ties to even
Tenths(n, u) ==
    LET whole == ToInt(Above(n, u))
        below == SubSeq(n, 1, u)
        top == IF u = 0 THEN 0 ELSE below[u]
        rest == \E i \in 1..(u - 1) : below[i] # 0
        up == top > Base \div 2 \/ (top = Base \div 2 /\ (rest \/ whole % 2 = 1))
    IN IF up THEN whole + 1 ELSE whole

\* _format_capacity: the number in tenths and the unit it prints
format_capacity(text) ==
    IF ~text.known THEN [tenths |-> -1, unit |-> "unknown"]
    ELSE LET n == BytesTimesTen(text, UnitGroup(text.unit))
             u == IF AtLeast(n, 4) THEN 4 ELSE IF AtLeast(n, 3) THEN 3
                  ELSE IF AtLeast(n, 2) THEN 2 ELSE IF AtLeast(n, 1) THEN 1 ELSE 0
         IN [tenths |-> Tenths(n, u), unit |-> RenderUnits[u + 1]]

\* _get_full_disk_info formats one capacity
CallFormatCapacity ==
    /\ \E text \in CapacityTexts :
        event' = [type |-> "call", fn |-> "capacity", arg |-> text,
                  out |-> format_capacity(text)]
    /\ UNCHANGED <<poolVars, procVars, tickVars, retryVars, envVars, _system_online, data,
                   kind>>

\* A mount point is the sequence of its characters.
DigitChars == {"0", "1", "2", "3", "4", "5", "6", "7", "8", "9"}

VolPrefix == <<"/", "v", "o", "l">>

\* the longest remainder that counts as a root-level suffix
ShortSuffix == 3

MountPoints ==
    {<<>>,
     <<"/", "v", "o", "l">>,
     <<"/", "v", "o", "l", "1">>,
     <<"/", "v", "o", "l", "2">>,
     <<"/", "v", "o", "l", "1", "2", "3", "4", "5">>,
     <<"/", "v", "o", "l", "a">>,
     <<"/", "v", "o", "l", "1", "a">>,
     <<"/", "v", "o", "l", "a", "b", "c", "d">>,
     <<"/", "v", "o", "l", ".", "a">>,
     <<"/", "v", "o", "l", "-", "1">>,
     <<"/", "v", "o", "l", "1", "/">>,
     <<"/", "v", "o", "l", "1", "/", "d", "o", "c", "k", "e", "r", "/", "o", "v", "e", "r", "l", "a", "y", "2", "/", "a", "b", "c">>,
     <<"/", "v", "a", "r">>,
     <<"/", "m", "n", "t", "/", "v", "o", "l", "1">>}

\* str.startswith
StartsWith(t, prefix) ==
    Len(t) >= Len(prefix) /\ SubSeq(t, 1, Len(prefix)) = prefix

\* str.isdigit
IsDigit(t) == t # <<>> /\ \A i \in 1..Len(t) : t[i] \in DigitChars

\* `c in t` for a character c
Contains(t, c) == \E i \in 1..Len(t) : t[i] = c

\* is_root_vol_mount
is_root_vol_mount(mount_point) ==
    IF mount_point = <<>> \/ ~StartsWith(mount_point, VolPrefix) THEN FALSE
    ELSE LET remainder == SubSeq(mount_point, Len(VolPrefix) + 1, Len(mount_point)) IN
         IF remainder = <<>> THEN TRUE
         ELSE IF IsDigit(remainder) THEN TRUE
         ELSE IF ~Contains(remainder, "/") /\ Len(remainder) <= ShortSuffix THEN TRUE
         ELSE FALSE

\* the fewest fields of a df line that is parsed
DfFields == 6

\* outputs of df below the header line: the mount point and the number of fields of
\* each line
DfOutputs ==
    {<<>>,
     <<[mount_point |-> <<"/", "v", "o", "l", "1">>, fields |-> DfFields],
       [mount_point |-> <<"/", "v", "o", "l", "1", "/", "d", "o", "c", "k", "e", "r", "/", "o", "v", "e", "r", "l", "a", "y", "2", "/", "a", "b", "c">>, fields |-> DfFields],
       [mount_point |-> <<"/", "v", "o", "l", "2">>, fields |-> DfFields - 1]>>,
     <<[mount_point |-> <<"/", "v", "o", "l", ".", "a">>, fields |-> DfFields],
       [mount_point |-> <<"/", "v", "a", "r">>, fields |-> DfFields],
       [mount_point |-> <<"/", "v", "o", "l">>, fields |-> DfFields]>>}

\* parse_df_bytes and parse_df_human_readable: the keys of the volumes they return
parse_df(df_output) ==
    {df_output[i].mount_point : i \in {k \in 1..Len(df_output) :
        /\ df_output[k].fields >= DfFields
        /\ is_root_vol_mount(df_output[k].mount_point)}}

\* outputs of `mount | grep '/vol'`, as the mount point of each line: nothing, a
\* directory below a volume, a root-level volume with such a directory and a second
\* volume
MountTables ==
    {<<>>,
     << <<"/", "v", "o", "l", "1", "/", "d", "o", "c", "k", "e", "r", "/", "o", "v", "e", "r", "l", "a", "y", "2", "/", "a", "b", "c">> >>,
     << <<"/", "v", "o", "l", "1">>,
        <<"/", "v", "o", "l", "1", "/", "d", "o", "c", "k", "e", "r", "/", "o", "v", "e", "r", "l", "a", "y", "2", "/", "a", "b", "c">>,
        <<"/", "v", "o", "l", "2">> >>}

\* outputs of the second listing: nothing, a mount point that only contains /vol, a
\* root-level volume
MountTablesAgain ==
    {<<>>,
     << <<"/", "m", "n", "t", "/", "v", "o", "l", "1">> >>,
     << <<"/", "v", "o", "l", "1">> >>}

\* check_active_volumes: the root-level mount points of the mount table (a volume on
\* a disk that may sleep is kept as well)
check_active_volumes(mount_output) ==
    {mount_output[i] : i \in {k \in 1..Len(mount_output) :
        /\ StartsWith(mount_output[k], VolPrefix)
        /\ is_root_vol_mount(mount_output[k])}}

\* the words of the second mount listing that start with /vol
VolPoints(mount_output) ==
    {mount_output[i] : i \in {k \in 1..Len(mount_output) :
        StartsWith(mount_output[k], VolPrefix)}}

\* what a df command returns through run_command: nothing, the "No such file or
\* directory" text, or a header followed by lines
Reply(k, lines) == [kind |-> k, lines |-> lines]

NoReply == Reply("empty", <<>>)

NoSuchFile == Reply("nosuch", <<>>)

\* a line for /vol1, complete or one field short
VolLine == Reply("lines", <<[mount_point |-> <<"/", "v", "o", "l", "1">>, fields |-> DfFields]>>)

ShortLine ==
    Reply("lines", <<[mount_point |-> <<"/", "v", "o", "l", "1">>, fields |-> DfFields - 1]>>)

\* the commands of get_vol_usage, in the order of the source
VolQueries ==
    <<"mount", "df_bytes_active", "df_human_active", "df_bytes_wildcard",
      "df_human_wildcard", "mount_again", "df_human_mounted">>

\* `if df_output:` followed by `if result:` on the queries of the active volumes
YieldsActive(r) == r.kind # "empty" /\ parse_df(r.lines) # {}

\* `if df_output and "No such file or directory" not in df_output:` followed by
\* `if result:` on the wildcard queries
YieldsWildcard(r) == r.kind = "lines" /\ parse_df(r.lines) # {}

\* a first stage that never returns
ActiveNeverReturns(r) == FALSE

\* the first stage returns the volumes of this reply
ActiveReturns(r) == YieldsActive(r)

VolResult(queries, volumes) == [queries |-> queries, volumes |-> volumes]

\* get_vol_usage from the wildcard queries on; done are the commands run so far
WildcardStage(done, df, mount_again) ==
    IF YieldsWildcard(df.df_bytes_wildcard)
    THEN VolResult(done \o <<"df_bytes_wildcard">>, parse_df(df.df_bytes_wildcard.lines))
    ELSE IF YieldsWildcard(df.df_human_wildcard)
    THEN VolResult(done \o <<"df_bytes_wildcard", "df_human_wildcard">>,
                   parse_df(df.df_human_wildcard.lines))
    ELSE LET tried == done \o <<"df_bytes_wildcard", "df_human_wildcard", "mount_again">> IN
         IF VolPoints(mount_again) = {} THEN VolResult(tried, {})
         ELSE IF df.df_human_mounted.kind = "empty"
         THEN VolResult(tried \o <<"df_human_mounted">>, {})
         ELSE VolResult(tried \o <<"df_human_mounted">>, parse_df(df.df_human_mounted.lines))

\* get_vol_usage: the commands it runs, in order, and the keys of the volumes it returns
get_vol_usage_stages(mount_output, df, mount_again) ==
    IF check_active_volumes(mount_output) = {}
    THEN WildcardStage(<<"mount">>, df, mount_again)
    ELSE IF ActiveReturns(df.df_bytes_active)
    THEN VolResult(<<"mount", "df_bytes_active">>, parse_df(df.df_bytes_active.lines))
    ELSE IF ActiveReturns(df.df_human_active)
    THEN VolResult(<<"mount", "df_bytes_active", "df_human_active">>,
                   parse_df(df.df_human_active.lines))
    ELSE WildcardStage(<<"mount", "df_bytes_active", "df_human_active">>, df, mount_again)

\* the replies tried for each df command: the wildcard alone can print the
\* "No such file or directory" text
DfAnswers ==
    [df_bytes_active : {NoReply, VolLine, ShortLine},
     df_human_active : {NoReply, VolLine, ShortLine},
     df_bytes_wildcard : {NoSuchFile, VolLine},
     df_human_wildcard : {NoReply, VolLine},
     df_human_mounted : {NoReply, VolLine}]

\* get_vol_usage is called: the outputs of its commands are inputs
CallGetVolUsage ==
    /\ \E mount_output \in MountTables, mount_again \in MountTablesAgain, df \in DfAnswers :
        event' = [type |-> "call", fn |-> "get_vol_usage",
                  arg |-> [mount_output |-> mount_output, df |-> df,
                           mount_again |-> mount_again],
                  out |-> get_vol_usage_stages(mount_output, df, mount_again)]
    /\ UNCHANGED <<poolVars, procVars, tickVars, retryVars, envVars, _system_online, data,
                   kind>>

\* check_active_volumes tests one mount point
CallIsRootVolMount ==
    /\ \E mount_point \in MountPoints :
        event' = [type |-> "call", fn |-> "is_root_vol_mount", arg |-> mount_point,
                  out |-> is_root_vol_mount(mount_point)]
    /\ UNCHANGED <<poolVars, procVars, tickVars, retryVars, envVars, _system_online, data,
                   kind>>

\* get_vol_usage parses one output of df
CallParseDf ==
    /\ \E df_output \in DfOutputs :
        event' = [type |-> "call", fn |-> "parse_df", arg |-> df_output,
                  out |-> parse_df(df_output)]
    /\ UNCHANGED <<poolVars, procVars, tickVars, retryVars, envVars, _system_online, data,
                   kind>>

\* ---------------------------------------------------------------- specification

InitCommon ==
    /\ ssh_pool = <<>>
    /\ ssh_pool_lock = NoProc
    /\ use_sudo = FALSE
    /\ _system_online = FALSE
    /\ _ping_task = "none"
    /\ check_interval = 0
    /\ loops = 0
    /\ attempts = 0
    /\ reloads = 0
    /\ data = get_default_data
    /\ pc = [p \in Procs |-> "idle"]
    /\ connection_id = [p \in Procs |-> -1]
    /\ sess = [p \in Procs |-> "none"]
    /\ result = [p \in Procs |-> ""]
    /\ err = [p \in Procs |-> NoErr]
    /\ polls = 0
    /\ kind = [p \in Callers |-> "none"]
    /\ stage = "none"
    /\ work = EmptyWork
    /\ first_run = TRUE
    /\ disk_full_info_cache = EmptyDict
    /\ disk_io_stats_cache = EmptyDict
    /\ disk_poll = NoPoll
    /\ loaded = "loaded"
    /\ event = NoEvent

Init ==
    /\ InitCommon
    /\ users = {"a1"}
    /\ ssh_pool_size = PoolSizeDefault
    /\ enable_docker = TRUE
    /\ host = "headless"
    /\ flaky = TRUE

Next ==
    \/ \E p \in Procs : Acquire(p)
    \/ \E p \in Procs : WaitPoll(p)
    \/ \E p \in Procs : Exec(p)
    \/ \E p \in Procs : Release(p)
    \/ UnloadDisconnect
    \/ UnloadCancel
    \/ \E p \in Callers, k \in ActionKinds : Press(p, k)
    \/ \E p \in Callers : Return(p)
    \/ TickStart
    \/ TickProbe
    \/ TickAdvance

Spec == Init /\ [][Next]_vars

\* the exhaustion scenario: ceiling 1, two callers and the tick, a reliable transport
InitOne ==
    /\ InitCommon
    /\ users = Callers
    /\ ssh_pool_size = 1
    /\ enable_docker = TRUE
    /\ host = "headless"
    /\ flaky = FALSE

\* with two callers the tick can find the pool lock held by a waiting request
NextOne == Next \/ TickCloseAll

SpecOne == InitOne /\ [][NextOne]_vars

\* hosts that answer the extractors, over a reliable transport
InitSnap ==
    /\ InitCommon
    /\ users = {"a1"}
    /\ ssh_pool_size = PoolSizeDefault
    /\ enable_docker = TRUE
    /\ host \in {"full", "no_uptime", "no_memory"}
    /\ flaky = FALSE

\* with a reliable transport the tick and one caller never fill the pool, so the
\* waiting loop is not entered
NextSnap ==
    \/ \E p \in Procs : Acquire(p)
    \/ \E p \in Procs : Exec(p)
    \/ \E p \in Procs : Release(p)
    \/ UnloadDisconnect
    \/ UnloadCancel
    \/ \E p \in Callers, k \in ActionKinds : Press(p, k)
    \/ \E p \in Callers : Return(p)
    \/ TickStart
    \/ TickProbe
    \/ TickAdvance

SpecSnap == InitSnap /\ [][NextSnap]_vars

\* the retry loop against a host that stays headless, over a reliable transport
InitRetry ==
    /\ InitCommon
    /\ users = {"a1"}
    /\ ssh_pool_size = PoolSizeDefault
    /\ enable_docker = TRUE
    /\ host = "headless"
    /\ flaky = FALSE

NextRetry == NextSnap \/ RetryProbe

SpecRetry == InitRetry /\ [][NextRetry]_vars

\* the action calls with a boolean result against a host that answers the VM and pool
\* commands only, over a transport that may fail
InitAct ==
    /\ InitCommon
    /\ users = {"a1"}
    /\ ssh_pool_size = PoolSizeDefault
    /\ enable_docker = FALSE
    /\ host = "zfs"
    /\ flaky = TRUE

NextAct ==
    \/ \E p \in Procs : Acquire(p)
    \/ \E p \in Procs : Exec(p)
    \/ \E p \in Procs : Release(p)
    \/ \E p \in Callers, k \in ActionKinds : Press(p, k)
    \/ \E p \in Callers, action \in VmCallActions : ControlVm(p, action)
    \/ \E p \in Callers : UpsPoll(p)
    \/ \E p \in Callers : Return(p)
    \/ TickStart
    \/ TickProbe
    \/ TickAdvance

SpecAct == InitAct /\ [][NextAct]_vars

\* every writer and reader of the online state together: the tick, the retry loop, the
\* action calls, the power-backup poll and the unload
NextFrame ==
    \/ NextRetry
    \/ \E p \in Callers : UpsPoll(p)

SpecFrame == InitRetry /\ [][NextFrame]_vars

\* the tick alone, with and without the container feature, over a reliable transport:
\* a host that answers every extractor, one that prints nothing for the VM title and
\* the container list, one that has no pool and no VM
InitTick ==
    /\ InitCommon
    /\ users = {}
    /\ ssh_pool_size = PoolSizeDefault
    /\ enable_docker \in BOOLEAN
    /\ host \in {"full", "untitled", "headless"}
    /\ flaky = FALSE

NextTick ==
    \/ Acquire(Tick)
    \/ Exec(Tick)
    \/ Release(Tick)
    \/ TickStart
    \/ TickProbe
    \/ TickAdvance

SpecTick == InitTick /\ [][NextTick]_vars

\* the privilege negotiation: a host on which every outcome of the negotiation occurs,
\* over a reliable transport
InitPriv ==
    /\ InitCommon
    /\ users = {"a1"}
    /\ ssh_pool_size = PoolSizeDefault
    /\ enable_docker = TRUE
    /\ host = "sudoers"
    /\ flaky = FALSE

NextPriv ==
    \/ \E p \in Procs : Acquire(p)
    \/ \E p \in Procs : Exec(p)
    \/ \E p \in Procs : Release(p)
    \/ \E p \in Callers, k \in ActionKinds : Press(p, k)
    \/ \E p \in Callers : Return(p)
    \/ TickStart
    \/ TickProbe
    \/ TickAdvance

SpecPriv == InitPriv /\ [][NextPriv]_vars

\* the disk extractor alone: its command outputs are inputs
InitDisk ==
    /\ InitCommon
    /\ users = {}
    /\ ssh_pool_size = PoolSizeDefault
    /\ enable_docker = TRUE
    /\ host = "full"
    /\ flaky = FALSE

NextDisk ==
    \/ DiskPollStart
    \/ DiskPollDevice
    \/ DiskPollEnd
    \/ DiskTickOffline

SpecDisk == InitDisk /\ [][NextDisk]_vars

\* get_disk_activity is called for device sda: the outputs of its commands and the
\* I/O cache it finds are inputs
CallGetDiskActivity ==
    /\ \E state \in StateOutputs, hdparm_output \in HdparmOutputs,
          stat \in StatSamplesWide, io \in IoCacheSamples :
        LET power == get_disk_power_state(state, hdparm_output) IN
        event' = [type |-> "call", fn |-> "get_disk_activity",
                  arg |-> [device |-> "sda", power |-> power, stat |-> stat, io |-> io],
                  out |-> get_disk_activity("sda", power, stat, io)]
    /\ UNCHANGED <<poolVars, procVars, tickVars, retryVars, envVars, _system_online, data,
                   kind>>

\* the parsers and formatters alone: each step applies one of them to one input
NextParse ==
    \/ CallHealth
    \/ CallFormatCapacity
    \/ CallIsRootVolMount
    \/ CallParseDf
    \/ CallGetDiskActivity
    \/ CallGetVolUsage

SpecParse == InitDisk /\ [][NextParse]_vars

\* ---------------------------------------------------------------- properties

IsTickReturn == event.type = "tick"
IsCloseAll == event.type = "close_all" \/ (IsTickReturn /\ event.path = "offline")

\* C1: in every reachable state the number of sessions in the pool is at most the
\* pool ceiling, whatever the interleaving of acquire, release, closeAll, run,
\* action calls and ticks (failing ticks included).
C1_PoolWithinCeiling == Len(ssh_pool) <= ssh_pool_size

\* the pool is full of in-use sessions and a request is in the waiting loop
C1_Witness ==
    /\ ssh_pool_size = PoolSizeDefault
    /\ Len(ssh_pool) = ssh_pool_size
    /\ ssh_pool_lock # NoProc

\* C2: with ceiling 1, a request that finds the pool exhausted leaves the waiting loop
\* within 50 polls (5 s) either holding a session, on which it runs its command, or
\* with the pool-exhausted exception; it never leaves it without one of the two.
C2_WaitEndsInSessionOrError ==
    [][\A p \in Procs :
         (pc[p] = "wait" /\ pc'[p] # "wait") =>
            /\ polls < WaitPolls
            /\ \/ pc'[p] \in {"exec", "release"} /\ sess'[p] = "open"
               \/ pc'[p] = "ret" /\ err'[p].kind = "pool_exhausted"]_vars

\* the second request has failed with the pool-exhausted error while the first
\* request still holds the only session
C2_Witness ==
    /\ ssh_pool_size = 1
    /\ \E p \in Procs, q \in Procs :
        /\ p # q
        /\ err[p].kind = "pool_exhausted"
        /\ pc[q] \in {"exec", "release"}
        /\ Len(ssh_pool) = 1

\* the processes that are inside run_command (the tick's async_connect is not one)
InRun(p) == p \in Callers \/ stage # "connect"

\* C3: run_command never raises: whatever exception it met (connect failure, pool
\* exhaustion, failed or closed session), none escapes and it returns "".
C3_RunNeverRaises ==
    \A p \in Procs :
        InRun(p) => /\ ~err[p].raised
                    /\ (pc[p] \in {"release", "ret"} /\ err[p].kind # "none") => result[p] = ""

\* one run has returned "" after pool exhaustion and another after its session was
\* closed under it
C3_Witness ==
    \E p \in Procs, q \in Callers :
        /\ pc[p] = "ret" /\ InRun(p) /\ err[p].kind = "pool_exhausted" /\ result[p] = ""
        /\ pc[q] = "ret" /\ err[q].kind \in {"exec", "connect"} /\ result[q] = ""

\* C4: run_command pairs acquire and release: once every caller has returned, no
\* pooled session is left marked in use.
C4_NoSessionLeftInUse ==
    (\A p \in Procs : pc[p] = "idle") => \A i \in 1..Len(ssh_pool) : ~ssh_pool[i].in_use

\* C5: close_all_ssh_connections calls close() on every pooled session, free or in
\* use, whether or not an earlier close() raised, and leaves the pool empty.
C5_CloseAllClosesEverything ==
    IsCloseAll => event.skipped = 0 /\ event.left = 0 /\ ssh_pool = <<>>

\* closeAll ran on a pool with free and in-use sessions, and a close() raised
C5_Witness == IsCloseAll /\ event.mixed

\* C6: a tick whose probe fails returns with the state offline, the pool closed and
\* empty, the default snapshot (status "off", no disks) published, no extractor
\* command run, and exactly one retry loop started unless one was running.
C6_OfflineTick ==
    /\ loops <= 1
    /\ (_ping_task = "pending") <=> (loops = 1)
    /\ (IsTickReturn /\ event.path = "offline") =>
            /\ ~_system_online
            /\ ssh_pool = <<>> /\ event.skipped = 0
            /\ data = get_default_data
            /\ data.system.status = "off" /\ data.disks = <<>>
            /\ event.ran = 0
            /\ _ping_task # "none"

\* an offline tick has returned having closed the session a caller was using
C6_Witness ==
    /\ IsTickReturn /\ event.path = "offline"
    /\ loops = 1
    /\ \E p \in Callers : pc[p] = "exec" /\ sess[p] = "closed"

\* C7: a tick whose online path raised ends like a tick whose probe failed: state
\* offline, all pooled sessions closed, default snapshot, retry loop armed.
C7_ExceptionLikeFailedProbe ==
    (IsTickReturn /\ event.path = "exception") =>
        /\ ~_system_online
        /\ ssh_pool = <<>>
        /\ data = get_default_data
        /\ _ping_task # "none"

SnapshotKeys ==
    {"disks", "system", "ups", "vms", "docker_containers", "zpools", "scrub_status"}

\* C8: every snapshot a tick returns has exactly the seven top-level keys; its
\* system.status is "on" when built on the online path and "off" when default.
C8_SnapshotKeys ==
    IsTickReturn =>
        /\ DOMAIN data = SnapshotKeys
        /\ "status" \in DOMAIN data.system
        /\ data.system.status = IF event.path = "online" THEN "on" ELSE "off"

\* an online tick has returned a snapshot with disks, a VM and a pool
C8_Witness ==
    /\ IsTickReturn /\ event.path = "online"
    /\ data.disks # <<>> /\ data.vms # <<>> /\ data.zpools # <<>>

SystemInfoFields ==
    {"uptime_seconds", "uptime", "cpu_temperature", "motherboard_temperature",
     "memory_total", "memory_used", "memory_available", "volumes", "status"}

\* C9: the system record of every snapshot a tick publishes carries every
\* SystemInfo field.
C9_SystemRecordComplete ==
    IsTickReturn => SystemInfoFields \subseteq DOMAIN data.system

\* the snapshot without the fields that action calls write in place
Frame(d) ==
    [d EXCEPT !.system = Merge(@, [status |-> "-"]),
              !.vms = [i \in DOMAIN @ |-> Merge(@[i], [state |-> "-"])],
              !.docker_containers = [i \in DOMAIN @ |-> Merge(@[i], [status |-> "-"])]]

IsRetryProbe == event.type = "retry"

\* 30 * 1.5^k capped at 300 s, in 1/32 s: 960 * 3^k / 2^k while that is below 9600
RECURSIVE Backoff(_)
Backoff(k) ==
    IF k = 0 THEN RetryIntervalStart
    ELSE LET b == Backoff(k - 1)
         IN IF b * 3 < RetryIntervalMax * 2 THEN (b * 3) \div 2 ELSE RetryIntervalMax

\* C11: the retry loop waits 30 s before its first probe and min(30 * 1.5^(k-1), 300) s
\* before its k-th; the waits never decrease, never exceed 300 s and stay at 300 s
\* once they reach it.
C11_BackoffSchedule ==
    /\ [](_ping_task = "pending" =>
            /\ check_interval = Backoff(attempts)
            /\ check_interval >= RetryIntervalStart /\ check_interval <= RetryIntervalMax
            /\ (attempts = 0 => check_interval = 960)
            /\ (attempts = 1 => check_interval = 1440)
            /\ (attempts = 2 => check_interval = 2160)
            /\ (attempts = 5 => check_interval = 7290)
            /\ (attempts >= 6 => check_interval = 9600))
    /\ [][(IsRetryProbe' /\ ~event'.ok) =>
            /\ event'.waited = check_interval
            /\ check_interval' >= check_interval
            /\ check_interval' * 2 <= check_interval * 3
            /\ (check_interval = RetryIntervalMax => check_interval' = RetryIntervalMax)]_vars

\* the loop has waited 300 s twice in a row
C11_Witness ==
    /\ IsRetryProbe /\ ~event.ok
    /\ event.waited = RetryIntervalMax
    /\ attempts = 7

\* C12: a successful probe of the retry loop requests one reload and ends the loop,
\* which never probes again; a failed probe requests no reload and leaves the loop
\* running, and nothing else requests a reload.
C12_ReloadOnceOnSuccess ==
    [][/\ IsRetryProbe' => /\ _ping_task = "pending"
                           /\ IF event'.ok
                              THEN /\ reloads' = reloads + 1
                                   /\ _ping_task' = "done"
                                   /\ loops' = loops - 1
                              ELSE /\ reloads' = reloads
                                   /\ _ping_task' = "pending"
                                   /\ loops' = loops
       /\ reloads' # reloads => IsRetryProbe' /\ event'.ok]_vars

\* the third probe of a loop has succeeded after two failed ones
C12_Witness ==
    /\ IsRetryProbe /\ event.ok
    /\ attempts = 2
    /\ reloads = 1
    /\ _ping_task = "done"

\* the stages of the tick's online path
OnlineStages ==
    {"connect", "uptime", "sensors", "free", "vol", "disks", "zpools", "scrub", "ups",
     "vms", "title", "docker"}

\* C13: every tick sets the online/offline state from its own probe, whatever the state
\* was and whether or not a retry loop is running; a tick whose probe succeeds and
\* whose extractors do not raise returns with the state online and system.status "on".
C13_LevelTriggered ==
    /\ [][(stage = "probe" /\ stage' # "probe") =>
            /\ stage' \in {"connect", "closing", "none"}
            /\ _system_online' <=> (stage' = "connect")]_vars
    /\ [](stage \in OnlineStages => _system_online)
    /\ []((IsTickReturn /\ event.path = "online") =>
            _system_online /\ data.system.status = "on")
    /\ []((IsTickReturn /\ event.path # "online") => ~_system_online)

\* an online tick has returned while the retry loop started by an earlier offline
\* tick is still running and has already probed
C13_Witness ==
    /\ IsTickReturn /\ event.path = "online"
    /\ _system_online
    /\ _ping_task = "pending" /\ attempts > 0

\* ---- disk extractor

IsDiskStep == event'.type = "disk"

Sentinels == {"unknown", "undetected", "failed"}

CachedBefore(d) == Get(disk_full_info_cache, d, EmptyDict)

\* the published expensive fields are the cached ones, and the cache entry is untouched
ServedFromCache ==
    /\ ~event'.probed
    /\ disk_full_info_cache' = disk_full_info_cache
    /\ \A f \in ExpensiveFields :
        event'.record[f] = Get(CachedBefore(event'.device), f, "undetected")

\* C14 as stated: in every poll, a device whose activity is dormant is not probed, its
\* expensive fields are the cached values and its cache entry is unchanged.
C14_DormantNeverProbed ==
    [][(IsDiskStep /\ event'.record.status = "dormant") => ServedFromCache]_vars

\* C14 amended: in every poll after the first, a device that check_disk_active finds
\* dormant is not probed, its expensive fields are the cached values (the "undetected"
\* sentinel where nothing is cached) and its cache entry is unchanged.
C14_DormantSkipsProbe ==
    [][(IsDiskStep /\ ~event'.forced /\ event'.checked = "dormant") => ServedFromCache]_vars

C14_Witness ==
    /\ event.type = "disk" /\ ~event.forced /\ event.checked = "dormant"
    /\ event.record.status = "dormant"
    /\ event.record.temperature = "35 C"
    /\ event.device \in DOMAIN disk_full_info_cache
    /\ ~first_run

\* C15: in the first poll every enumerated, non-ignored device is probed whatever its
\* activity, and the forced mode ends only once the device loop of that poll is over.
C15_FirstPollProbesAll ==
    [][/\ (IsDiskStep /\ first_run) =>
            /\ event'.probed /\ event'.forced
            /\ event'.device \notin IgnoreDisks
            /\ first_run'
       /\ (first_run /\ ~first_run') => (disk_poll.running /\ disk_poll.todo = <<>>)
       /\ (~first_run => ~first_run')]_vars

C15_Witness ==
    /\ event.type = "disk" /\ event.forced /\ event.probed
    /\ event.device = "sdb"
    /\ event.record.status = "dormant"
    /\ DOMAIN disk_full_info_cache = {"sda", "sdb"}
    /\ first_run

\* C16 as stated: when the probe fails (its tools return nothing, or it raises) for a
\* device with cached expensive fields, each cached field keeps its value in the published
\* record and in the cache.
C16_FailedProbeKeepsCache ==
    [][(/\ IsDiskStep /\ event'.probed
        /\ event'.sample \in {"nothing", "raise"}
        /\ event'.device \in DOMAIN disk_full_info_cache) =>
            \A f \in ExpensiveFields :
                LET d == event'.device IN
                disk_full_info_cache[d][f] \notin Sentinels =>
                    /\ event'.record[f] = disk_full_info_cache[d][f]
                    /\ disk_full_info_cache'[d][f] = disk_full_info_cache[d][f]]_vars

\* ---- action calls

IsVmCall == event'.type = "vm_call"

IsActionReturn == event'.type = "action"

\* C17: control_vm rejects an action outside {start, shutdown, reboot, destroy} before any
\* remote command: the call ends at once, no session is acquired and no command is run,
\* so no process is ever inside run_command for such an action.
C17_UnknownActionRejected ==
    /\ [][(IsVmCall /\ event'.action \notin {"start", "shutdown", "reboot", "destroy"}) =>
            /\ event'.rejected
            /\ UNCHANGED <<poolVars, procVars, kind, data, _system_online>>]_vars
    /\ [](\A p \in Callers :
            kind[p] \in {"none", "reboot", "shutdown", "container_restart", "scrub",
                         "ups_poll", "vm_start", "vm_shutdown", "vm_reboot", "vm_destroy"})

C17_Witness ==
    /\ event.type = "vm_call" /\ event.action = "pause" /\ event.rejected
    /\ _system_online
    /\ Len(ssh_pool) > 0
    /\ pc["a1"] = "idle" /\ kind["a1"] = "none"

\* C18 as stated: control_vm with a valid action returns true only when the remote command
\* was executed, and false when it was not (host offline, no session, transport error or
\* timeout in the command).
C18_FalseWhenNotExecuted ==
    [][(IsActionReturn /\ event'.kind \in VmKinds) =>
            (event'.success <=> event'.cause = "none")]_vars

\* the outputs of the scrub command that begin with "cannot" in some letter case
CannotOutputs == {"cannot open 'tank': no such pool", "Cannot scrub tank: busy"}

\* C19: scrub_zpool returns true exactly when the command printed something that does not
\* begin with "cannot" in any letter case; no output, which is what every transport
\* failure and the offline state give, yields false; the command is issued at most once
\* per call.
C19_ScrubSuccess ==
    [][/\ (IsActionReturn /\ event'.kind = "scrub") =>
            /\ event'.success <=> (event'.output # "" /\ event'.output \notin CannotOutputs)
            /\ event'.cause # "none" => (event'.output = "" /\ ~event'.success)
       /\ \A p \in Callers : kind[p] = "scrub" =>
            /\ pc[p] = "exec" => pc'[p] \in {"exec", "release"}
            /\ pc[p] = "release" => pc'[p] \in {"release", "ret"}
            /\ pc[p] = "ret" => pc'[p] \in {"ret", "idle"}]_vars

C19_Witness ==
    /\ event.type = "action" /\ event.kind = "scrub"
    /\ event.output = "Cannot scrub tank: busy"
    /\ ~event.success
    /\ event.cause = "none"

\* ---- online state

\* C20: only the tick writes the online state, when it assigns the probe result or in
\* its except clause: run, the pool operations, the extractors, the action calls, the retry
\* loop, the power-backup poll and the unload leave it unchanged.
C20_OnlyTickWritesOnline ==
    [][(_system_online' # _system_online) =>
            \/ stage = "probe" /\ stage' # "probe"
            \/ pc[Tick] = "ret" /\ event'.type = "tick" /\ event'.path = "exception"]_vars

C20_Witness ==
    /\ event.type = "retry" /\ event.ok
    /\ ~_system_online
    /\ _ping_task = "done"
    /\ data.system.status = "off"

\* ---- unload

\* C21 as stated: once async_unload_entry has returned, no retry loop of the coordinator
\* is pending and the coordinator's pool is empty.
C21_UnloadLeavesNothing ==
    loaded = "unloaded" => (_ping_task # "pending" /\ loops = 0 /\ Len(ssh_pool) = 0)

\* ---- parsers

IsCall(name) == event.type = "call" /\ event.fn = name

\* the seven health values
HealthValues == {"good", "faulty", "error", "warning", "critical", "unknown", "unavailable"}

\* the documented health of a word of the vocabulary
DocumentedHealth(w) ==
    CASE w \in {"PASSED", "PASS", "OK", "GOOD"} -> {"good"}
      [] w \in {"FAILED", "FAIL"} -> {"faulty"}
      [] w = "ERROR" -> {"error"}
      [] w = "WARNING" -> {"warning"}
      [] w = "CRITICAL" -> {"critical"}
      [] w = "UNKNOWN" -> {"unknown"}
      [] w = "NOT AVAILABLE" -> {"unavailable"}
      [] OTHER -> {}

\* C22: every word of the health vocabulary, in any letter case, maps to its one value
\* among the seven, and an unrecognized word, a missing health line and an empty output
\* map to "unknown".
C22_HealthMappingTotal ==
    IsCall("health") =>
        /\ event.out \in HealthValues
        /\ LET w == event.arg.value.word IN
           IF event.arg.kind = "line" /\ DocumentedHealth(w) # {}
           THEN event.out \in DocumentedHealth(w)
           ELSE event.out = "unknown"

C22_Witness ==
    /\ IsCall("health")
    /\ event.arg = [kind |-> "line", value |-> Word("PASSED", "lower", TRUE)]
    /\ event.out = "good"

\* the same capacity text with the SI-like suffix in place of the binary one
SiSuffixed(text) ==
    [text EXCEPT !.unit = CASE @ = "KiB" -> "KB" [] @ = "MiB" -> "MB"
                            [] @ = "GiB" -> "GB" [] @ = "TiB" -> "TB" [] OTHER -> @]

\* C23 as stated: a capacity is rendered with one decimal in the largest unit of
\* B/KB/MB/GB/TB in which it is at least 1, at 1024 scale; "1,000,204,886,016 bytes"
\* gives "931.5 GB", "2 TB" gives "2.0 TB", and a binary suffix gives the same result as
\* the SI-like suffix.
C23_CapacityNormalized ==
    (IsCall("capacity") /\ event.arg.known) =>
        /\ event.out.unit = "B" \/ event.out.tenths >= 10
        /\ event.out.unit = "TB" \/ event.out.tenths <= 10 * Base
        /\ (event.arg.number = BigCapacityNumber /\ event.arg.unit = "bytes") =>
                event.out = [tenths |-> 9315, unit |-> "GB"]
        /\ (event.arg.number.int = <<2>> /\ event.arg.unit = "TB") =>
                event.out = [tenths |-> 20, unit |-> "TB"]
        /\ event.out = format_capacity(SiSuffixed(event.arg))

\* the letters and digits of the sample mount points
AlnumChars == DigitChars \cup {"a", "b", "c", "d", "e", "k", "l", "m", "n", "o", "r", "t",
                               "u", "v", "y"}

\* root-level as documented: the prefix /vol, then nothing, digits only, or at most three
\* letters or digits
DocumentedRootLevel(t) ==
    /\ Len(t) >= 4 /\ SubSeq(t, 1, 4) = <<"/", "v", "o", "l">>
    /\ LET r == SubSeq(t, 5, Len(t)) IN
        \/ r = <<>>
        \/ \A i \in 1..Len(r) : r[i] \in DigitChars
        \/ Len(r) <= 3 /\ \A i \in 1..Len(r) : r[i] \in AlnumChars

\* C24 as stated: a mount point is root-level exactly when it starts with /vol and the
\* remainder is empty, purely numeric, or at most three alphanumeric characters; only
\* root-level mount points are keys of the volumes map.
C24_RootLevelMounts ==
    /\ IsCall("is_root_vol_mount") => (event.out <=> DocumentedRootLevel(event.arg))
    /\ IsCall("parse_df") => \A k \in event.out : DocumentedRootLevel(k)

\* a process that holds a pooled session and has reached release_ssh_connection
AtRelease(q) ==
    /\ pc[q] = "release"
    /\ 0 <= connection_id[q] /\ connection_id[q] < Len(ssh_pool)
    /\ ssh_pool[connection_id[q] + 1].in_use

\* C25 as stated: while a caller is blocked in the waiting loop of acquire and a holder
\* has called release, the release completes without waiting for the blocked caller, and
\* the blocked caller does not fail with pool-exhausted.
C25_ReleaseDuringWaitServesWaiter ==
    [][\A p \in Procs :
        (pc[p] = "wait" /\ \E q \in Procs \ {p} : AtRelease(q)) =>
            /\ \E q \in Procs \ {p} : AtRelease(q) /\ ENABLED Release(q)
            /\ ~(pc'[p] = "ret" /\ err'[p].kind = "pool_exhausted")]_vars

\* the step is a scan of the pool by get_ssh_connection in process p
Scans(p) ==
    \/ pc[p] = "acquire" /\ pc'[p] # "acquire"
    \/ pc[p] = "wait" /\ (pc'[p] # "wait" \/ polls' # polls)

\* the step returns a session to process p
Acquires(p) == Scans(p) /\ pc'[p] \in {"exec", "release"}

\* the step hands a pooled session to process p
AcquiresPooled(p) == Acquires(p) /\ event' = NoEvent /\ Len(ssh_pool') = Len(ssh_pool)

\* the step opens a new session for process p
AcquiresNew(p) == Acquires(p) /\ ~AcquiresPooled(p)

\* the probe of the scan failed
ProbeFailed == event'.type = "probe_failed"

\* the last pair of the pool is a session that is in use by process p alone
LastIsNewFor(pool, p) ==
    /\ Len(pool) > 0
    /\ pool[Len(pool)].in_use
    /\ pool[Len(pool)].owners = {p}

\* C26 as stated: acquire hands out a free session only after its probe passed, removes
\* from the pool a session whose probe failed and does not hand it out, and opens a new
\* session only if no free session passes the probe and the pool is below capacity.
C26_NewOnlyIfNoFreePasses ==
    [][\A p \in Procs : Scans(p) =>
        LET i == FirstFree(ssh_pool) IN
        /\ AcquiresPooled(p) => (i > 0 /\ ~ProbeFailed)
        /\ ProbeFailed => (i > 0 /\ SubSeq(ssh_pool', 1, Len(ssh_pool) - 1) = Pop(ssh_pool, i))
        /\ AcquiresNew(p) =>
            /\ i = 0 \/ (ProbeFailed /\ ~event'.other_passes)
            /\ Len(ssh_pool') <= ssh_pool_size]_vars

\* C26, amended: acquire probes the first free session in pool order only.  If the probe
\* passes that session is handed out; if it fails the session is removed from the pool,
\* never handed out, and no other free session is tried in that scan: acquire opens a
\* new session when there was no free session or the probed one failed, and the pool
\* after the removal is below capacity.
C26_ProbesFirstFreeOnly ==
    [][\A p \in Procs : Scans(p) =>
        LET i == FirstFree(ssh_pool) IN
        /\ AcquiresPooled(p) =>
            /\ i > 0 /\ ~ProbeFailed
            /\ ssh_pool' = HandOut(ssh_pool, i, p)
            /\ connection_id'[p] = i - 1
        /\ ProbeFailed =>
            /\ i > 0
            /\ SubSeq(ssh_pool', 1, Len(ssh_pool) - 1) = Pop(ssh_pool, i)
            /\ Len(ssh_pool') = Len(ssh_pool) - 1 \/ AcquiresNew(p)
        /\ AcquiresNew(p) =>
            /\ i = 0 \/ ProbeFailed
            /\ pc[p] = "acquire"
            /\ Len(ssh_pool') <= ssh_pool_size
            /\ Len(ssh_pool') = Len(AfterProbe(ssh_pool, i, ~ProbeFailed)) + 1
            /\ LastIsNewFor(ssh_pool', p)
            /\ connection_id'[p] = Len(ssh_pool') - 1
        /\ (i > 0 /\ ~ProbeFailed) => AcquiresPooled(p)]_vars

\* a scan dropped the first free session, left a free session that would have passed the
\* probe untried, and opened a new session
C26_Witness ==
    /\ event.type = "probe_failed" /\ event.other_passes
    /\ \E p \in Procs : pc[p] = "exec" /\ connection_id[p] = Len(ssh_pool) - 1
                        /\ LastIsNewFor(ssh_pool, p)
    /\ \E j \in 1..Len(ssh_pool) : ~ssh_pool[j].in_use

\* the step is release_ssh_connection in process p
Releases(p) == pc[p] = "release" /\ pc'[p] = "ret"

\* C27 as stated: a pooled session is never held by two callers at once, and release
\* marks free only the session that was handed out to the releasing caller, whatever
\* sessions were dropped from the pool or added to it in between.
C27_SessionHeldByOne ==
    /\ [](\A i \in 1..Len(ssh_pool) : Cardinality(ssh_pool[i].owners) <= 1)
    /\ [][\A p \in Procs : Releases(p) =>
            \A i \in 1..Len(ssh_pool) :
                (ssh_pool[i].in_use /\ ~ssh_pool'[i].in_use) => p \in ssh_pool[i].owners]_vars

\* a command of the negotiation found the session to be root
Succeeded(s) == IF s.step = "id" THEN s.answer = "0" ELSE s.answer = "root"

\* the commands of the negotiation in their documented order, on a host whose config
\* entry has a root password or not
NegotiationOrder(root_password) ==
    IF root_password THEN <<"id", "root_password", "login_password">>
    ELSE <<"id", "login_password">>

\* C28: the privilege negotiation runs once for a session, in the step that opens it and
\* before it is in the pool, and not when a pooled session is handed out.  It asks in
\* order whether the session is root, then escalates with the root password, then with
\* the login password, and stops at the first success with per-command elevation off.
\* If nothing succeeds, or the first command raises, the session is appended to the pool
\* and handed out all the same, with per-command elevation on.
C28_NegotiationOncePerNewSession ==
    [][/\ \A p \in Procs : Scans(p) =>
            LET i == FirstFree(ssh_pool) IN
            /\ AcquiresPooled(p) =>
                /\ use_sudo' = use_sudo
                /\ ssh_pool'[i].fallback = ssh_pool[i].fallback
            /\ ~Acquires(p) => (use_sudo' = use_sudo /\ event' = NoEvent)
            /\ AcquiresNew(p) =>
                LET t == event'.transcript
                    n == Len(t)
                    order == NegotiationOrder(host \in RootPasswordHosts)
                IN /\ event'.type = "opened"
                   /\ n >= 1 /\ n <= Len(order)
                   /\ \A k \in 1..n : t[k].step = order[k]
                   /\ \A k \in 1..(n - 1) : ~Succeeded(t[k])
                   /\ n > 1 => t[1].answer # "raise"
                   /\ n < Len(order) => (Succeeded(t[n]) \/ (n = 1 /\ t[n].answer = "raise"))
                   /\ use_sudo' = ~Succeeded(t[n])
                   /\ LastIsNewFor(ssh_pool', p)
                   /\ ssh_pool'[Len(ssh_pool')].fallback = use_sudo'
                   /\ connection_id'[p] = Len(ssh_pool') - 1
       /\ use_sudo' # use_sudo => \E p \in Procs : AcquiresNew(p)]_vars

\* a session was opened whose escalation with the root password raised and whose
\* escalation with the login password succeeded
C28_Witness ==
    /\ event.type = "opened"
    /\ event.transcript = <<Step("id", "1000"), Step("root_password", "raise"),
                            Step("login_password", "root")>>
    /\ ~use_sudo
    /\ \E p \in Procs : pc[p] = "exec" /\ LastIsNewFor(ssh_pool, p)
    /\ ~ssh_pool[Len(ssh_pool)].fallback

\* the step runs the command of process p on its session
Executes(p) == pc[p] = "exec" /\ pc'[p] = "release"

C31_PublishedActiveIsProbed ==
    [][(IsDiskStep /\ ~event'.forced /\ event'.record.status = "active") =>
        event'.probed]_vars

\* the step is an expensive probe of device d that returned the fields it read
ProbeSucceeded(d) ==
    /\ IsDiskStep /\ event'.device = d
    /\ event'.probed /\ event'.sample \notin {"nothing", "raise"}

\* C32 as stated: a device's cache entry of expensive fields, once written, is never
\* removed, and it changes only in a step in which the expensive probe ran for that
\* device and succeeded; polls in which the device is idle, dormant or not listed, and
\* offline ticks, leave it unchanged.
C32_CacheChangesOnlyOnSuccess ==
    [][\A d \in DOMAIN disk_full_info_cache :
        /\ d \in DOMAIN disk_full_info_cache'
        /\ disk_full_info_cache'[d] # disk_full_info_cache[d] => ProbeSucceeded(d)]_vars


\* a call of get_disk_activity that returned
IsActivityCall == event.type = "call" /\ event.fn = "get_disk_activity"

\* the call got at /sys/block/<device>/stat: the device is not dormant and the
\* line is complete
ReadCounters == event.arg.power \notin {"standby", "sleep"} /\ event.arg.stat.fields >= StatFields

HasCached == event.arg.device \in DOMAIN event.arg.io

\* as stated: any counter strictly greater than the cached one
AboveCached ==
    LET c == event.arg.io[event.arg.device] IN
    \/ event.arg.stat.read_ios > c.read_ios
    \/ event.arg.stat.write_ios > c.write_ios
    \/ event.arg.stat.io_ticks > c.io_ticks

\* as the code decides: the busy time counts once it grew by more than the threshold
AboveCachedByThreshold ==
    LET c == event.arg.io[event.arg.device] IN
    \/ event.arg.stat.read_ios > c.read_ios
    \/ event.arg.stat.write_ios > c.write_ios
    \/ event.arg.stat.io_ticks > c.io_ticks + IoTicksThreshold

\* C33 as stated: get_disk_activity returns dormant when the power state is standby
\* or sleep; otherwise, on counters it could read, active if requests are in flight,
\* if a counter is strictly greater than the cached one or if nothing is cached yet,
\* and idle otherwise.
C33_ActivityRule ==
    IsActivityCall =>
        IF event.arg.power \in {"standby", "sleep"} THEN event.out.status = "dormant"
        ELSE ReadCounters =>
             event.out.status =
                 IF event.arg.stat.in_flight > 0 \/ ~HasCached \/ AboveCached
                 THEN "active" ELSE "idle"

\* C33 amended: the busy time counts only once it grew by more than 100 ms over the
\* cached one, and a device whose counters cannot be read is active.
C33_ActivityRuleThreshold ==
    IsActivityCall =>
        IF event.arg.power \in {"standby", "sleep"} THEN event.out.status = "dormant"
        ELSE IF ~ReadCounters THEN event.out.status = "active"
        ELSE event.out.status =
                 IF event.arg.stat.in_flight > 0 \/ ~HasCached \/ AboveCachedByThreshold
                 THEN "active" ELSE "idle"

\* the busy time grew by less than the threshold, nothing else moved, and the call
\* returned idle
C33_Witness ==
    /\ IsActivityCall /\ ReadCounters /\ HasCached
    /\ event.arg.stat.in_flight = 0
    /\ AboveCached /\ ~AboveCachedByThreshold
    /\ event.out.status = "idle"

\* C34: after each get_disk_activity call that read the device's counters, the
\* cached counters of that device equal the counters just read, whichever activity
\* was returned (in-flight I/O included), and the counters of other devices are
\* unchanged.
C34_CountersCachedEveryCall ==
    (IsActivityCall /\ ReadCounters) =>
        /\ event.arg.device \in DOMAIN event.out.io
        /\ event.out.io[event.arg.device] = StatsOfActivity(event.arg.stat)
        /\ \A d \in DOMAIN event.arg.io \ {event.arg.device} :
              d \in DOMAIN event.out.io /\ event.out.io[d] = event.arg.io[d]


\* get_disks_info returns its list
PollCompletes == disk_poll.running /\ ~disk_poll'.running

IsOfflineTick == event'.type = "tick" /\ event'.path = "offline"

\* the device was never probed with success, nor seen awake
FirstEnumerated(d) == d \notin DOMAIN disk_full_info_cache /\ d \notin DOMAIN disk_io_stats_cache

\* C35: the forced full detection is consumed by the first disk poll that completes,
\* even one that enumerated no device; an offline tick, which runs no extractor, does
\* not consume it; once consumed it never returns, so a device first enumerated in a
\* later poll is not force-probed: it is probed only if the activity check finds it
\* active, and otherwise published with the "undetected" sentinel.
C35_ForcedDetectionConsumedOnce ==
    [][/\ PollCompletes => ~first_run'
       /\ IsOfflineTick => (first_run' = first_run /\ disk_poll' = disk_poll)
       /\ ~first_run => ~first_run'
       /\ (IsDiskStep /\ ~first_run /\ FirstEnumerated(event'.device)) =>
             /\ ~event'.forced
             /\ event'.checked = "dormant" =>
                   /\ ~event'.probed
                   /\ event'.record.temperature = "undetected"]_vars

\* the first poll is over, nothing was cached, and a device is met that the check
\* finds dormant: it is published without a probe
C35_Witness ==
    /\ ~first_run
    /\ event.type = "disk" /\ ~event.forced /\ event.checked = "dormant"
    /\ ~event.probed
    /\ event.record.temperature = "undetected"
    /\ disk_full_info_cache = EmptyDict /\ disk_io_stats_cache = EmptyDict


\* ---- retry loops over time

\* C36: at any time at most one retry loop is pending, across ticks with failed
\* probes and ticks whose online path raised: a loop is started only by a tick, and
\* only when no loop was ever started or the previous one has finished.
C36_OneRetryLoop ==
    [][/\ loops' <= 1
       /\ loops' > loops =>
             /\ loops = 0
             /\ _ping_task \in {"none", "done"} /\ _ping_task' = "pending"
             /\ stage \in {"probe"} \cup OnlineStages
       /\ (_ping_task = "pending" /\ stage # "none" /\ stage' = "none") =>
             (_ping_task' = "pending" /\ loops' = loops)]_vars

\* a first loop has ended with its reload request, and a tick whose online path
\* raised has started the next one
C36_Witness ==
    /\ IsTickReturn /\ event.path = "exception"
    /\ reloads = 1
    /\ _ping_task = "pending" /\ loops = 1


\* C37: once a tick has found the host online and published an online snapshot, a
\* retry loop started by an earlier offline tick requests no reload: a reload is
\* requested only while the online state is offline.
C37_ReloadOnlyWhileOffline ==
    [][reloads' # reloads => ~_system_online]_vars


\* ---- order of the extractors

\* the place of each stage in the documented order: the pool is primed, then System
\* (uptime, sensors, memory, volumes), Disk, Disk-Pool, Scrub status, Power-Backup,
\* VM list, VM titles, Container list
StageRank(st) ==
    CASE st = "connect" -> 1
      [] st = "uptime" -> 2
      [] st = "sensors" -> 3
      [] st = "free" -> 4
      [] st = "vol" -> 5
      [] st = "disks" -> 6
      [] st = "zpools" -> 7
      [] st = "scrub" -> 8
      [] st = "ups" -> 9
      [] st = "vms" -> 10
      [] st = "title" -> 11
      [] st = "docker" -> 12
      [] OTHER -> 0

\* the stages a tick may leave out: the scrub status without a pool, the titles
\* without a VM, the container list without the feature
OptionalStages == {"scrub", "title", "docker"}

\* the tick goes from stage a to a later stage b and leaves out optional stages only
Follows(a, b) ==
    /\ StageRank(a) < StageRank(b)
    /\ \A st \in OnlineStages :
          (StageRank(a) < StageRank(st) /\ StageRank(st) < StageRank(b)) =>
              st \in OptionalStages

\* C38: an online tick primes the pool first and then runs the extractors one after
\* another in the order System, Disk, Disk-Pool, Scrub status of each listed pool,
\* Power-Backup, VM list, a title per VM, Container list; the containers are listed
\* only with the feature flag set and the snapshot's container list is empty
\* otherwise; a VM title or a container listing that fails does not abort the tick.
C38_ExtractorOrder ==
    [][/\ (stage = "probe" /\ stage' \in OnlineStages) => stage' = "connect"
       /\ (stage \in OnlineStages /\ stage' \in OnlineStages /\ stage' # stage) =>
             /\ Follows(stage, stage')
             /\ stage' = "scrub" <=> (stage = "zpools" /\ work'.zpools # <<>>)
             /\ stage' = "title" <=> (stage = "vms" /\ work'.vms # <<>>)
             /\ stage' = "docker" => enable_docker
             /\ pc[Tick] = "ret"
       /\ (stage \in OnlineStages /\ stage' = "none" /\ event'.path = "online") =>
             /\ stage = (IF enable_docker THEN "docker"
                         ELSE IF work.vms # <<>> THEN "title" ELSE "vms")
             /\ ~enable_docker => data'.docker_containers = <<>>
       /\ (stage \in {"title", "docker"} /\ stage' = "none") => event'.path = "online"]_vars

\* an online tick has gone through every stage on a host with a pool, a VM and the
\* container feature; the title of the VM could not be read nor the containers listed
C38_Witness ==
    /\ IsTickReturn /\ event.path = "online"
    /\ enable_docker
    /\ data.zpools # <<>> /\ PoolName \in DOMAIN data.scrub_status
    /\ data.vms # <<>> /\ data.vms[1].title = VMName
    /\ data.docker_containers = <<>>
    /\ data.disks # <<>>
    /\ host = "untitled"


\* ---- volume discovery

IsVolCall == event.type = "call" /\ event.fn = "get_vol_usage"

Issued(q) == \E i \in 1..Len(event.out.queries) : event.out.queries[i] = q

\* the place of a command in the fixed order
QueryRank(q) == CHOOSE i \in 1..Len(VolQueries) : VolQueries[i] = q

\* a root-level volume is mounted and one of its usage queries returned a volume
FirstStageYields ==
    /\ check_active_volumes(event.arg.mount_output) # {}
    /\ \/ parse_df(event.arg.df.df_bytes_active.lines) # {}
          /\ event.arg.df.df_bytes_active.kind = "lines"
       \/ parse_df(event.arg.df.df_human_active.lines) # {}
          /\ event.arg.df.df_human_active.kind = "lines"

WildcardYields ==
    \E q \in {"df_bytes_wildcard", "df_human_wildcard"} :
        event.arg.df[q].kind = "lines" /\ parse_df(event.arg.df[q].lines) # {}

\* C39: volume discovery runs its commands in a fixed order: the usage queries
\* restricted to the mounted root-level volumes, then the wildcard usage queries,
\* then the inspection of the mount table; a wildcard query is issued only if the
\* first stage yielded no volume, and the mount table is inspected only if the
\* wildcard queries yielded none either, so a mounted root-level volume whose usage
\* query returned it leaves no wildcard query in that poll.
C39_VolumeDiscoveryStages ==
    IsVolCall =>
        /\ \A i, j \in 1..Len(event.out.queries) :
              i < j => QueryRank(event.out.queries[i]) < QueryRank(event.out.queries[j])
        /\ event.out.queries[1] = "mount"
        /\ (Issued("df_bytes_active") \/ Issued("df_human_active")) =>
              check_active_volumes(event.arg.mount_output) # {}
        /\ (Issued("df_bytes_wildcard") \/ Issued("df_human_wildcard")) => ~FirstStageYields
        /\ (Issued("mount_again") \/ Issued("df_human_mounted")) =>
              (~FirstStageYields /\ ~WildcardYields)
        /\ FirstStageYields =>
              /\ ~Issued("df_bytes_wildcard") /\ ~Issued("df_human_wildcard")
              /\ event.out.volumes # {}

\* /vol1 is mounted, its usage query in bytes printed nothing and the one in human
\* units returned it: the poll ends there, although the wildcard query would have
\* returned a volume too
C39_Witness ==
    /\ IsVolCall
    /\ check_active_volumes(event.arg.mount_output) # {}
    /\ event.arg.df.df_bytes_active.kind = "empty"
    /\ FirstStageYields /\ WildcardYields
    /\ event.out.queries = <<"mount", "df_bytes_active", "df_human_active">>
    /\ event.out.volumes # {}

====
